---- MODULE Spec2Model ----
(***************************************************************************)
(* BoxLite runtime orchestration layer: box status state machine, per-box  *)
(* lock managers (in-memory and file based) and the runtime's box          *)
(* registry, cache and lifecycle operations.                               *)
(*                                                                         *)
(* Thirteen specifications share this module:                              *)
(*   SpecState      BoxState methods applied to arbitrary states           *)
(*   SpecLock       one lock manager under concurrent threads              *)
(*   SpecLockProcs  two processes, one FileLockManager each, one directory *)
(*   Spec           the runtime (create/get/list_info/start/exec/metrics/  *)
(*                  stop/remove and recovery) under concurrent callers     *)
(*   SpecSeq        the runtime with one caller, one call at a time        *)
(*   SpecHome       two processes opening a runtime on one home directory  *)
(*   SpecLookup     BoxManager::lookup_box on arbitrary stores             *)
(*   SpecShim       one box on a host with room for two shims              *)
(*   SpecRecover    startup recovery on homes left by earlier runs         *)
(*   SpecRecoverFaults  ... with failures of the lock directory and store  *)
(*   SpecPipe       runs of the init pipeline with its cleanup guard       *)
(*   SpecWatchdog   one shim, its parent process and the parent watchdog   *)
(*   SpecOrder      the locks taken by concurrent runtime operations       *)
(***************************************************************************)
EXTENDS Integers, Sequences, FiniteSets, TLC

VARIABLES
    \* ---- SpecState: one BoxState value and the last method applied to it
    st, stPrev, stArg, stRes, now,
    \* ---- lock managers
    lkMode, memAllocated, allocLock, fAllocated, lockFiles, nextIno, locked,
    grants, lt,
    \* ---- runtime: process, store, cache, BoxImpl objects, host, callers
    rtUp, seq, db, used, impls, cacheId, cacheName, procs, pidfile,
    bootStored, bootCur, runtime_lock, rt, out, infos,
    \* ---- history, kept for the sequential caller: the boxes create has
    \* returned in this run of the runtime and remove has not removed since
    created,
    \* ---- SpecPipe: one InitPipeline::run at a time with its CleanupGuard
    pl,
    \* ---- SpecWatchdog: one shim process, its parent and its watchdog thread
    wd,
    \* ---- SpecOrder: where each caller is in the locking of its operation
    lo

stvars == <<st, stPrev, stArg, stRes, now>>
lkvars == <<lkMode, memAllocated, allocLock, fAllocated, lockFiles, nextIno,
            locked, grants, lt>>
rtvars == <<rtUp, seq, db, used, impls, cacheId, cacheName, procs, pidfile,
            bootStored, bootCur, runtime_lock, rt, out, infos, created>>
vars == <<stvars, lkvars, rtvars, pl, wd, lo>>
\* What the actions of one specification leave alone.
nonState == <<lkvars, rtvars, pl, wd, lo>>
nonLock == <<stvars, rtvars, pl, wd, lo>>
nonRt == <<stvars, lkMode, memAllocated, allocLock, nextIno, grants, lt, pl,
           wd, lo>>
\* Groups of runtime variables.
lmvars == <<lockFiles, fAllocated, locked>>
cachevars == <<cacheId, cacheName>>
hostvars == <<procs, pidfile>>
bootvars == <<rtUp, seq, bootStored, bootCur, runtime_lock>>

None == "None"
\* Option::None of a pid, of a lock ID, of a lock handle.
NoPid == 0
NoLock == 0 - 1
NoHandle == [id |-> NoLock, obj |-> <<"n", 0>>]

(***************************************************************************)
(* Bounds of the model.                                                    *)
(***************************************************************************)
\* Utc::now() readings taken in one behaviour of SpecState.
MaxClock == 3
\* Lock IDs 0..NumLocks-1 (InMemoryLockManager::new(num_locks); the file
\* manager's u32 IDs are cut off at the same value).
NumLocks == 2
\* Lock files created in one behaviour (each creation is a new inode).
MaxIno == 2
\* BoxImpl objects alive at once (handles the callers keep): with one
\* caller, and with concurrent callers.
MaxImpls == 2
MaxShared == 1
\* Process IDs of the host.
MaxPid == 1
\* Process IDs of the host where two shims are given room to run at once.
MaxShims == 2
\* Box IDs drawn in one behaviour, the persisted box of Init included.
MaxBoxes == 2
\* Boot IDs the host goes through (its reboots plus one).
MaxBoot == 2
\* Failed initializations counted in one behaviour.
MaxFailed == 4
\* Callers whose locking is followed.
MaxCallers == 3

(***************************************************************************)
(* litebox/init/pipeline.rs: InitPipeline::run and its CleanupGuard        *)
(*                                                                         *)
(* pl.st is how far each stage of the run is; pl.armed, pl.layout and      *)
(* pl.controller are the guard's fields (what is registered with it);     *)
(* pl.unwound is what the guard's drop has cleaned up, in that order;      *)
(* pl.boxes_failed is the runtime's counter.                               *)
(***************************************************************************)
Stages == {"filesystem", "rootfs", "init_image", "config", "spawn",
           "connect", "init"}

Joined == {"filesystem", "rootfs", "init_image"}

\* No run yet; CleanupGuard::new arms the guard with nothing registered.
PlNone == [pc |-> "idle", st |-> [s \in Stages |-> "todo"], armed |-> FALSE,
           layout |-> FALSE, controller |-> FALSE, unwound |-> << >>,
           boxes_failed |-> 0, res |-> "none"]

\* A faulty drop, for comparison: it cleans up whether armed or not.
CleanupGuard_drop_mut(p) ==
    [p EXCEPT !.unwound = (IF p.controller THEN <<"controller">> ELSE << >>)
                          \o (IF p.layout THEN <<"layout">> ELSE << >>),
              !.boxes_failed = @ + 1]

\* Drop for CleanupGuard: nothing if disarmed; else the controller is
\* stopped if there is one, then the layout is cleaned up if there is one,
\* and boxes_failed is incremented.
CleanupGuard_drop(p) ==
    IF ~p.armed THEN p
    ELSE [p EXCEPT !.unwound = (IF p.controller THEN <<"controller">>
                                ELSE << >>)
                               \o (IF p.layout THEN <<"layout">> ELSE << >>),
                   !.boxes_failed = @ + 1]

\* A faulty first poll, for comparison: the filesystem stage is still
\* running when the two preparations start.
PipeRun_mut ==
    /\ pl.pc \in {"idle", "done", "failed"}
    /\ pl.boxes_failed < MaxFailed
    /\ pl' = [PlNone EXCEPT
                 !.pc = "join", !.armed = TRUE,
                 !.boxes_failed = pl.boxes_failed,
                 !.st = [s \in Stages |->
                            IF s \in Joined THEN "run" ELSE "todo"]]
    /\ UNCHANGED <<stvars, lkvars, rtvars, wd, lo>>

\* run() up to the first poll of tokio::join!: the guard is created armed,
\* and the three blocks are polled in their order.  The filesystem block
\* has no await, so it has ended (well or not) when the rootfs block and
\* then the init image block are polled and start.
PipeRun ==
    /\ pl.pc \in {"idle", "done", "failed"}
    /\ pl.boxes_failed < MaxFailed
    /\ \E r \in {"ok", "err"} :
          pl' = [PlNone EXCEPT
                    !.pc = "join", !.armed = TRUE,
                    !.boxes_failed = pl.boxes_failed,
                    !.st = [s \in Stages |->
                               IF s = "filesystem" THEN r
                               ELSE IF s \in Joined THEN "run" ELSE "todo"]]
    /\ UNCHANGED <<stvars, lkvars, rtvars, wd, lo>>

\* A block of the join ends.  When the last one has, the results are
\* looked at: an error returns (the guard is dropped), else the layout is
\* registered with the guard and the sequential stages follow.
JoinEnd(s, r) ==
    /\ pl.pc = "join"
    /\ pl.st[s] = "run"
    /\ LET st1 == [pl.st EXCEPT ![s] = r]
       IN  pl' = IF \E j \in Joined : st1[j] = "run"
                 THEN [pl EXCEPT !.st = st1]
                 ELSE IF \E j \in Joined : st1[j] = "err"
                 THEN CleanupGuard_drop([pl EXCEPT !.st = st1,
                                                   !.pc = "failed",
                                                   !.res = "err"])
                 ELSE [pl EXCEPT !.st = st1, !.pc = "config",
                                 !.layout = TRUE]
    /\ UNCHANGED <<stvars, lkvars, rtvars, wd, lo>>

\* The stage at pl.pc starts, or the one running ends with r: config,
\* spawn (its controller is registered with the guard), then
\* stages::guest::run, which connects to the guest and then initializes
\* it.  An error returns, dropping the guard; after the last stage the
\* controller is taken from the guard, the guard is disarmed and, at the
\* end of run(), dropped.
SeqStage(r) ==
    /\ pl.pc \in {"config", "spawn", "connect", "init"}
    /\ LET s == pl.pc
           st1 == [pl.st EXCEPT ![s] = r]
           after == [config |-> "spawn", spawn |-> "connect",
                     connect |-> "init", init |-> "done"]
       IN  pl' = IF pl.st[s] = "todo"
                 THEN [pl EXCEPT !.st[s] = "run"]
                 ELSE IF r = "err"
                 THEN CleanupGuard_drop([pl EXCEPT !.st = st1,
                                                   !.pc = "failed",
                                                   !.res = "err"])
                 ELSE IF s = "init"
                 THEN CleanupGuard_drop([pl EXCEPT !.st = st1, !.pc = "done",
                                                   !.res = "ok",
                                                   !.controller = FALSE,
                                                   !.armed = FALSE])
                 ELSE [pl EXCEPT !.st = st1, !.pc = after[s],
                                 !.controller = (@ \/ s = "spawn")]
    /\ UNCHANGED <<stvars, lkvars, rtvars, wd, lo>>

(***************************************************************************)
(* litebox/state.rs: BoxStatus and BoxState                                *)
(***************************************************************************)
Unknown == "unknown"
Starting == "starting"
Running == "running"
Stopping == "stopping"
Stopped == "stopped"

BoxStatus == {Unknown, Starting, Running, Stopping, Stopped}

\* A faulty is_active, for comparison: it takes only Running for active.
is_active_mut(s) == s = Running

is_active(s) == s \in {Starting, Running}

can_stop(s) == s \in {Running, Starting}

can_remove(s) == s \in {Starting, Stopped, Unknown}

can_exec(s) == s \in {Starting, Running, Stopped}

\* A faulty table, for comparison: it accepts Stopped -> Running (a restart that skips Starting).
can_transition_to_mut(self, target) ==
    \/ self = Unknown
    \/ self = Starting /\ target \in {Running, Stopped, Unknown}
    \/ self = Running /\ target \in {Stopping, Stopped, Unknown}
    \/ self = Stopping /\ target \in {Stopped, Unknown}
    \/ self = Stopped /\ target \in {Starting, Running, Unknown}

can_transition_to(self, target) ==
    \/ self = Unknown
    \/ self = Starting /\ target = Running
    \/ self = Starting /\ target = Stopped
    \/ self = Starting /\ target = Unknown
    \/ self = Running /\ target = Stopping
    \/ self = Running /\ target = Stopped
    \/ self = Running /\ target = Unknown
    \/ self = Stopping /\ target = Stopped
    \/ self = Stopping /\ target = Unknown
    \/ self = Stopped /\ target = Starting
    \/ self = Stopped /\ target = Unknown

\* BoxState::new(): Starting, no pid, no lock yet.
BoxState_new(t) ==
    [status |-> Starting, pid |-> NoPid, lock_id |-> NoLock, last_updated |-> t]

\* Result of transition_to: the state afterwards and Ok / InvalidState.
transition_to(s, new_status, t) ==
    IF ~can_transition_to(s.status, new_status)
    THEN [state |-> s, res |-> "InvalidState"]
    ELSE [state |-> [s EXCEPT !.status = new_status, !.last_updated = t],
          res |-> "Ok"]

force_status(s, status, t) ==
    [s EXCEPT !.status = status, !.last_updated = t]

set_status(s, status, t) == force_status(s, status, t)

set_pid(s, pid, t) == [s EXCEPT !.pid = pid, !.last_updated = t]

\* A faulty variant, for comparison: it forgets to clear the pid of the crashed process.
mark_crashed_mut(s, t) ==
    [s EXCEPT !.status = Stopped, !.last_updated = t]

mark_crashed(s, t) ==
    [s EXCEPT !.status = Stopped, !.pid = NoPid, !.last_updated = t]

\* A faulty variant, for comparison: it keeps the pid of the lost process.
reset_for_reboot_mut(s, t) ==
    [s EXCEPT !.status = IF is_active(s.status) THEN Stopped ELSE s.status,
              !.last_updated = t]

reset_for_reboot(s, t) ==
    [s EXCEPT !.status = IF is_active(s.status) THEN Stopped ELSE s.status,
              !.pid = NoPid,
              !.last_updated = t]

(***************************************************************************)
(* SpecState: the BoxState methods on every state                          *)
(***************************************************************************)
(***************************************************************************)
(* bin/shim.rs: the shim process and its parent watchdog                   *)
(*                                                                         *)
(* wd.detach is config.detach; wd.jail is how Jailer::build_command        *)
(* wrapped the shim; wd.parent is what the host has at parent_pid: the     *)
(* parent, nothing, or a process that was given the number afterwards;     *)
(* wd.shim is the shim process, wd.code its exit status; wd.w is where the *)
(* watchdog thread is and wd.t the seconds of the grace period gone by.    *)
(***************************************************************************)
GRACEFUL_SHUTDOWN_TIMEOUT_SECS == 5

WdNone == [detach |-> FALSE, jail |-> "direct", parent |-> "alive",
           shim |-> "off", code |-> 0, w |-> "none", t |-> 0]

\* The runtime process spawns a shim with the command of
\* Jailer::build_command: under bwrap when it is available on Linux, the
\* bare binary otherwise, under sandbox-exec on macOS.  A shim that has
\* exited leaves room for the next one, spawned by a live parent.
ShimSpawn(detach, jail) ==
    /\ wd.shim \in {"off", "exited"}
    /\ wd' = [WdNone EXCEPT !.detach = detach, !.jail = jail, !.shim = "boot"]
    /\ UNCHANGED <<stvars, lkvars, rtvars, pl, lo>>

\* main: engine.create fails and main returns the error ("err"); or the
\* instance is there, the watchdog thread is started iff !detach, and the
\* process is handed to the VM ("ok"); or the VM ends, on its own or upon
\* the SIGTERM it has received, and the threads end with it ("end").
ShimMain(r) ==
    /\ IF r = "end" THEN wd.shim \in {"run", "term"} ELSE wd.shim = "boot"
    /\ wd' = CASE r = "err" -> [wd EXCEPT !.shim = "exited", !.code = 1]
               [] r = "ok" ->
                     [wd EXCEPT !.shim = "run",
                                !.w = IF wd.detach THEN "none" ELSE "sleep"]
               [] OTHER ->
                     [wd EXCEPT !.shim = "exited", !.w = "none",
                                !.code = IF wd.shim = "term" THEN 143 ELSE 0]
    /\ UNCHANGED <<stvars, lkvars, rtvars, pl, lo>>

\* One step of the thread of start_parent_watchdog: the sleep of one second
\* ends; is_process_alive(parent_pid) is asked, which is true when the host
\* has a process of that number, and SIGTERM sent to the shim when it is
\* false; one second of the grace period goes by; at its end SIGKILL is
\* sent (and exit(137) called).
start_parent_watchdog ==
    /\ wd.shim \in {"run", "term"}
    /\ \/ /\ wd.w = "sleep"
          /\ wd' = [wd EXCEPT !.w = "check"]
       \/ /\ wd.w = "check"
          /\ wd' = IF wd.parent # "dead"
                   THEN [wd EXCEPT !.w = "sleep"]
                   ELSE [wd EXCEPT !.w = "grace", !.t = 0, !.shim = "term"]
       \/ /\ wd.w = "grace"
          /\ wd' = IF wd.t < GRACEFUL_SHUTDOWN_TIMEOUT_SECS
                   THEN [wd EXCEPT !.t = wd.t + 1]
                   ELSE [wd EXCEPT !.shim = "exited", !.code = 137,
                                   !.w = "none"]
    /\ UNCHANGED <<stvars, lkvars, rtvars, pl, lo>>

\* What becomes of parent_pid on the host.  "exit": the parent process
\* dies; a shim under bwrap was started with --die-with-parent, whatever
\* config.detach is, so bwrap and its child are killed with SIGKILL.
\* "reuse": the host gives the number of the dead parent to a new process.
ParentPid(e) ==
    /\ IF e = "exit"
       THEN wd.parent = "alive" /\ wd.shim # "off"
       ELSE wd.parent = "dead"
    /\ wd' = CASE e = "reuse" -> [wd EXCEPT !.parent = "reused"]
               [] e = "exit" /\ wd.jail = "bwrap" /\ wd.shim # "exited" ->
                     [wd EXCEPT !.parent = "dead", !.shim = "exited",
                                !.code = 137, !.w = "none"]
               [] OTHER -> [wd EXCEPT !.parent = "dead"]
    /\ UNCHANGED <<stvars, lkvars, rtvars, pl, lo>>

(***************************************************************************)
(* The locks the runtime's operations take, in the order they take them:   *)
(* sync_state (RwLock of the RuntimeImpl), BoxImpl.state (RwLock, one per  *)
(* box), the store's connection (held for one BoxStore call) and the lock  *)
(* of the box's LockId (held by the LockGuard of init_live_state).         *)
(*                                                                         *)
(* lo[t] is the operation caller t is in, its box, and how many events of  *)
(* the operation's program it has gone through.                            *)
(***************************************************************************)
\* A faulty program, for comparison: stop invalidates the cache inside the
\* block that holds the state lock.
LockProgram_mut(op, b) ==
    LET A(res, inst, mode) == <<"acq", res, inst, mode>>
        R(res, inst, mode) == <<"rel", res, inst, mode>>
        U(res, inst, mode) == <<"use", res, inst, mode>>
        store == <<U("store", 0, "w")>>
        sync(mode) == <<U("sync", 0, mode)>>
        state(x, mode) == <<U("state", x, mode)>>
        info(x) == IF x > MaxBoxes THEN << >> ELSE state(x, "r")
        remove_box == store \o sync("w")
        stop ==
            state(b, "r")
            \o <<A("state", b, "w")>> \o store \o sync("w")
            \o <<R("state", b, "w")>>
    IN  CASE op = "create" -> store \o sync("w")
          [] op = "get" -> sync("r") \o store \o sync("w")
          [] op = "list_info" ->
                store \o <<A("sync", 0, "r")>> \o info(1) \o info(2)
                \o <<R("sync", 0, "r")>>
          [] op = "start" ->
                state(b, "r")
                \o <<A("box", b, "w")>>
                \o <<A("sync", 0, "w")>> \o store
                \o <<R("sync", 0, "w")>>
                \o <<A("state", b, "w")>> \o store \o <<R("state", b, "w")>>
                \o <<R("box", b, "w")>>
          [] op = "stop" -> stop
          [] op = "stop_auto_remove" -> stop \o remove_box
          [] op = "remove" -> remove_box
          [] OTHER -> store \o sync("r") \o state(b, "r") \o sync("w")

\* The locking of one operation on box b, in program order: a lock is
\* acquired ("acq") and later released ("rel"), or acquired and released
\* with no other lock asked for in between ("use": one BoxStore call, one
\* look at the cache, one read of the state); BoxStore calls that follow
\* one another stand as one.  "remove_unpersisted" (OTHER) is remove_box on
\* a box that is only in the cache.
LockProgram(op, b) ==
    LET A(res, inst, mode) == <<"acq", res, inst, mode>>
        R(res, inst, mode) == <<"rel", res, inst, mode>>
        U(res, inst, mode) == <<"use", res, inst, mode>>
        store == <<U("store", 0, "w")>>
        sync(mode) == <<U("sync", 0, mode)>>
        state(x, mode) == <<U("state", x, mode)>>
        info(x) == IF x > MaxBoxes THEN << >> ELSE state(x, "r")
        remove_box == store \o sync("w")
        stop ==
            state(b, "r")
            \o <<A("state", b, "w")>> \o store \o <<R("state", b, "w")>>
            \o sync("w")
    IN  CASE op = "create" -> store \o sync("w")
          [] op = "get" -> sync("r") \o store \o sync("w")
          [] op = "list_info" ->
                store \o <<A("sync", 0, "r")>> \o info(1) \o info(2)
                \o <<R("sync", 0, "r")>>
          [] op = "start" ->
                state(b, "r")
                \o <<A("box", b, "w")>>
                \o <<A("sync", 0, "w")>> \o store
                \o <<R("sync", 0, "w")>>
                \o <<A("state", b, "w")>> \o store \o <<R("state", b, "w")>>
                \o <<R("box", b, "w")>>
          [] op = "stop" -> stop
          [] op = "stop_auto_remove" -> stop \o remove_box
          [] op = "remove" -> remove_box
          [] OTHER -> store \o sync("r") \o state(b, "r") \o sync("w")

\* Caller t begins operation op on box b (b is 1 for the operations whose
\* locks are not those of a box), or goes through the next event of its
\* program, returning after the last.  A lock is granted in write mode
\* when no other caller holds it, in read mode when no other caller holds
\* it in write mode; a caller that is not granted the lock waits.
LoStep(t, op, b) ==
    LET prog(u) == LockProgram(lo[u].op, lo[u].b)
        held(u) ==
            IF lo[u].op = "none" THEN {}
            ELSE {<<e[2], e[3], e[4]>> : e \in
                    {prog(u)[i] : i \in
                       {i \in 1 .. lo[u].pc :
                          /\ prog(u)[i][1] = "acq"
                          /\ \A j \in (i + 1) .. lo[u].pc :
                                prog(u)[j] # <<"rel", prog(u)[i][2],
                                               prog(u)[i][3], prog(u)[i][4]>>}}}
        e == LockProgram(op, b)[lo[t].pc + 1]
    IN  /\ \/ /\ lo[t].op = "none"
              /\ op \in {"create", "get", "list_info", "remove"} => b = 1
              /\ lo' = [lo EXCEPT ![t] = [op |-> op, b |-> b, pc |-> 0]]
           \/ /\ lo[t].op = op
              /\ lo[t].b = b
              /\ lo[t].pc < Len(LockProgram(op, b))
              /\ e[1] \in {"acq", "use"}
                    => \A u \in DOMAIN lo \ {t} :
                          \A h \in held(u) :
                             (h[1] = e[2] /\ h[2] = e[3])
                                => (h[3] = "r" /\ e[4] = "r")
              /\ lo' = [lo EXCEPT ![t] =
                          IF lo[t].pc + 1 = Len(LockProgram(op, b))
                          THEN [op |-> "none", b |-> 0, pc |-> 0]
                          ELSE [@ EXCEPT !.pc = @ + 1]]
        /\ UNCHANGED <<stvars, lkvars, rtvars, pl, wd>>

Pids == 1 .. MaxPid
LockIds == 0 .. (NumLocks - 1)

StateInit ==
    /\ st \in [status : BoxStatus, pid : Pids \cup {NoPid},
               lock_id : LockIds \cup {NoLock}, last_updated : {0}]
    /\ stPrev = st
    /\ stArg = None
    /\ stRes = "none"
    /\ now = 0
    /\ pl = PlNone
    /\ wd = WdNone
    /\ lo = [t \in 1 .. MaxCallers |-> [op |-> "none", b |-> 0, pc |-> 0]]

StateIdle ==
    /\ st = BoxState_new(0)
    /\ stPrev = st
    /\ stArg = None
    /\ stRes = "none"
    /\ now = 0
    /\ pl = PlNone
    /\ wd = WdNone
    /\ lo = [t \in 1 .. MaxCallers |-> [op |-> "none", b |-> 0, pc |-> 0]]

TransitionTo(new_status) ==
    /\ now < MaxClock
    /\ now' = now + 1
    /\ stPrev' = st
    /\ stArg' = new_status
    /\ st' = transition_to(st, new_status, now + 1).state
    /\ stRes' = transition_to(st, new_status, now + 1).res
    /\ UNCHANGED nonState

ForceStatus(new_status) ==
    /\ now < MaxClock
    /\ now' = now + 1
    /\ stPrev' = st
    /\ stArg' = None
    /\ st' = force_status(st, new_status, now + 1)
    /\ stRes' = "none"
    /\ UNCHANGED nonState

SetPid(p) ==
    /\ now < MaxClock
    /\ now' = now + 1
    /\ stPrev' = st
    /\ stArg' = None
    /\ st' = set_pid(st, p, now + 1)
    /\ stRes' = "none"
    /\ UNCHANGED nonState

(***************************************************************************)
(* lock/memory.rs and lock/file.rs: the two LockManager implementations.   *)
(*                                                                         *)
(* lkMode selects the deployment: "mem" is one InMemoryLockManager shared  *)
(* by the threads, "file1" one FileLockManager shared by the threads,      *)
(* "file2" two FileLockManager instances (two processes) over the same     *)
(* lock directory, one thread each.                                        *)
(*                                                                         *)
(* A lock handle is [id, obj]: obj is the lock word of the slot (memory)   *)
(* or the inode the handle's descriptor was opened on (file).  grants[id]  *)
(* counts the allocations of id handed out and not yet freed.              *)
(***************************************************************************)
Threads == {"t1", "t2"}
Procs == {"p1", "p2"}

mgrOf(t) == IF lkMode = "file2" /\ t = "t2" THEN "p2" ELSE "p1"

LtIdle == [pc |-> "idle", id |-> NoLock, h |-> NoHandle, held |-> FALSE,
           res |-> "none"]

LockIdle ==
    /\ memAllocated = [i \in LockIds |-> FALSE]
    /\ allocLock = [p \in Procs |-> None]
    /\ fAllocated = [p \in Procs |-> {}]
    /\ lockFiles = [i \in LockIds |-> 0]
    /\ nextIno = 1
    /\ locked = {}
    /\ grants = [i \in LockIds |-> 0]
    /\ lt = [t \in Threads |-> LtIdle]

\* One manager shared by the threads of a process.
LockInit ==
    /\ lkMode \in {"mem", "file1"}
    /\ LockIdle

\* Two processes, each with its own FileLockManager over one directory.
ProcsInit ==
    /\ lkMode = "file2"
    /\ LockIdle

\* FileLockManager::next_available_id: smallest ID not in the instance's set.
next_available_id(allocated) ==
    CHOOSE i \in 0 .. NumLocks :
        /\ i \notin allocated
        /\ \A j \in 0 .. (i - 1) : j \in allocated

\* OpenOptions::create_new(true): the creation succeeds only if no file is there.
create_new_ok_mut(files, id) == TRUE

create_new_ok(files, id) == files[id] = 0

\* The lock word / flock is free for a new holder.
lock_free(obj) == obj \notin locked

MemObj(id) == <<"m", id>>
FileObj(ino) == <<"f", ino>>

Done(t, res) ==
    [lt[t] EXCEPT !.pc = "idle", !.id = NoLock, !.res = res]

\* ---- allocate()
AllocBegin(t) ==
    /\ lt[t].pc = "idle"
    /\ lt' = [lt EXCEPT ![t].pc = "alloc_wait", ![t].res = "none"]
    /\ UNCHANGED <<lkMode, memAllocated, allocLock, fAllocated, lockFiles,
                   nextIno, locked, grants>>
    /\ UNCHANGED nonLock

\* self.alloc_lock.lock(): the memory manager then scans from slot 0, the
\* file manager reads its set for the smallest free ID.
AllocLock(t) ==
    /\ lt[t].pc = "alloc_wait"
    /\ allocLock[mgrOf(t)] = None
    /\ lkMode # "mem" => next_available_id(fAllocated[mgrOf(t)]) < NumLocks
    /\ allocLock' = [allocLock EXCEPT ![mgrOf(t)] = t]
    /\ IF lkMode = "mem"
       THEN lt' = [lt EXCEPT ![t].pc = "alloc_load", ![t].id = 0]
       ELSE lt' = [lt EXCEPT ![t].pc = "alloc_create",
                             ![t].id = next_available_id(fAllocated[mgrOf(t)])]
    /\ UNCHANGED <<lkMode, memAllocated, fAllocated, lockFiles, nextIno,
                   locked, grants>>
    /\ UNCHANGED nonLock

\* memory.rs: if !lock.allocated.load(SeqCst) ...; exhausted after the scan.
MemAllocLoad(t) ==
    /\ lt[t].pc = "alloc_load"
    /\ IF lt[t].id = NumLocks
       THEN /\ lt' = [lt EXCEPT ![t] = Done(t, "err_exhausted")]
            /\ allocLock' = [allocLock EXCEPT ![mgrOf(t)] = None]
       ELSE /\ IF memAllocated[lt[t].id]
               THEN lt' = [lt EXCEPT ![t].id = lt[t].id + 1]
               ELSE lt' = [lt EXCEPT ![t].pc = "alloc_store"]
            /\ UNCHANGED allocLock
    /\ UNCHANGED <<lkMode, memAllocated, fAllocated, lockFiles, nextIno,
                   locked, grants>>
    /\ UNCHANGED nonLock

\* memory.rs: lock.allocated.store(true, SeqCst); return Ok(LockId(id)).
MemAllocStore(t) ==
    /\ lt[t].pc = "alloc_store"
    /\ memAllocated' = [memAllocated EXCEPT ![lt[t].id] = TRUE]
    /\ grants' = [grants EXCEPT ![lt[t].id] = @ + 1]
    /\ allocLock' = [allocLock EXCEPT ![mgrOf(t)] = None]
    /\ lt' = [lt EXCEPT ![t] = Done(t, "ok_alloc")]
    /\ UNCHANGED <<lkMode, fAllocated, lockFiles, nextIno, locked>>
    /\ UNCHANGED nonLock

\* file.rs: create_new on the lock file; AlreadyExists is an Internal error.
FileAllocCreate(t) ==
    /\ lt[t].pc = "alloc_create"
    /\ IF create_new_ok(lockFiles, lt[t].id)
       THEN /\ nextIno <= MaxIno
            /\ lockFiles' = [lockFiles EXCEPT ![lt[t].id] = nextIno]
            /\ nextIno' = nextIno + 1
            /\ lt' = [lt EXCEPT ![t].pc = "alloc_track"]
            /\ UNCHANGED allocLock
       ELSE /\ lt' = [lt EXCEPT ![t] = Done(t, "err_exists")]
            /\ allocLock' = [allocLock EXCEPT ![mgrOf(t)] = None]
            /\ UNCHANGED <<lockFiles, nextIno>>
    /\ UNCHANGED <<lkMode, memAllocated, fAllocated, locked, grants>>
    /\ UNCHANGED nonLock

\* file.rs: allocated.insert(id); return Ok(LockId(id)).
FileAllocTrack(t) ==
    /\ lt[t].pc = "alloc_track"
    /\ fAllocated' = [fAllocated EXCEPT ![mgrOf(t)] = @ \cup {lt[t].id}]
    /\ grants' = [grants EXCEPT ![lt[t].id] = @ + 1]
    /\ allocLock' = [allocLock EXCEPT ![mgrOf(t)] = None]
    /\ lt' = [lt EXCEPT ![t] = Done(t, "ok_alloc")]
    /\ UNCHANGED <<lkMode, memAllocated, lockFiles, nextIno, locked>>
    /\ UNCHANGED nonLock

\* ---- allocate_and_retrieve(id), used when restoring locks after a restart
\* memory.rs: bounds check, then allocated.swap(true), without alloc_lock.
MemAllocateAndRetrieve(t, id) ==
    /\ lkMode = "mem"
    /\ lt[t].pc = "idle"
    /\ lt[t].h = NoHandle
    /\ IF id >= NumLocks
       THEN /\ lt' = [lt EXCEPT ![t] = Done(t, "err_invalid")]
            /\ UNCHANGED <<memAllocated, grants>>
       ELSE IF memAllocated[id]
       THEN /\ lt' = [lt EXCEPT ![t] = Done(t, "err_already")]
            /\ UNCHANGED <<memAllocated, grants>>
       ELSE /\ memAllocated' = [memAllocated EXCEPT ![id] = TRUE]
            /\ grants' = [grants EXCEPT ![id] = @ + 1]
            /\ lt' = [lt EXCEPT ![t] = [Done(t, "ok_aar") EXCEPT
                                           !.h = [id |-> id, obj |-> MemObj(id)]]]
    /\ UNCHANGED <<lkMode, allocLock, fAllocated, lockFiles, nextIno, locked>>
    /\ UNCHANGED nonLock

\* file.rs: alloc_lock, then the set is consulted.
FileAarLock(t, id) ==
    /\ lkMode # "mem"
    /\ lt[t].pc = "idle"
    /\ lt[t].h = NoHandle
    /\ id < NumLocks
    /\ allocLock[mgrOf(t)] = None
    /\ allocLock' = [allocLock EXCEPT ![mgrOf(t)] = t]
    /\ lt' = [lt EXCEPT ![t].pc = "aar_create", ![t].id = id,
                        ![t].res = "none"]
    /\ UNCHANGED <<lkMode, memAllocated, fAllocated, lockFiles, nextIno,
                   locked, grants>>
    /\ UNCHANGED nonLock

\* file.rs: already in the set -> error; else create_new, insert, return handle.
FileAarCreate(t) ==
    /\ lt[t].pc = "aar_create"
    /\ allocLock' = [allocLock EXCEPT ![mgrOf(t)] = None]
    /\ IF lt[t].id \in fAllocated[mgrOf(t)]
       THEN /\ lt' = [lt EXCEPT ![t] = Done(t, "err_already")]
            /\ UNCHANGED <<fAllocated, lockFiles, nextIno, grants>>
       ELSE IF ~create_new_ok(lockFiles, lt[t].id)
       THEN /\ lt' = [lt EXCEPT ![t] = Done(t, "err_exists")]
            /\ UNCHANGED <<fAllocated, lockFiles, nextIno, grants>>
       ELSE /\ nextIno <= MaxIno
            /\ lockFiles' = [lockFiles EXCEPT ![lt[t].id] = nextIno]
            /\ nextIno' = nextIno + 1
            /\ fAllocated' = [fAllocated EXCEPT ![mgrOf(t)] = @ \cup {lt[t].id}]
            /\ grants' = [grants EXCEPT ![lt[t].id] = @ + 1]
            /\ lt' = [lt EXCEPT ![t] = [Done(t, "ok_aar") EXCEPT
                          !.h = [id |-> lt[t].id, obj |-> FileObj(nextIno)]]]
    /\ UNCHANGED <<lkMode, memAllocated, locked>>
    /\ UNCHANGED nonLock

\* ---- free(id)
\* memory.rs: allocated.swap(false); an unallocated ID is an error.
MemFree(t, id) ==
    /\ lkMode = "mem"
    /\ lt[t].pc = "idle"
    /\ IF id >= NumLocks
       THEN /\ lt' = [lt EXCEPT ![t] = Done(t, "err_invalid")]
            /\ UNCHANGED <<memAllocated, grants>>
       ELSE IF ~memAllocated[id]
       THEN /\ lt' = [lt EXCEPT ![t] = Done(t, "err_not_allocated")]
            /\ UNCHANGED <<memAllocated, grants>>
       ELSE /\ memAllocated' = [memAllocated EXCEPT ![id] = FALSE]
            /\ grants' = [grants EXCEPT ![id] = 0]
            /\ lt' = [lt EXCEPT ![t] = Done(t, "ok_free")]
    /\ UNCHANGED <<lkMode, allocLock, fAllocated, lockFiles, nextIno, locked>>
    /\ UNCHANGED nonLock

\* file.rs: the ID leaves the instance's set first (no alloc_lock) ...
FileFreeUntrack(t, id) ==
    /\ lkMode # "mem"
    /\ lt[t].pc = "idle"
    /\ id < NumLocks
    /\ IF id \notin fAllocated[mgrOf(t)]
       THEN /\ lt' = [lt EXCEPT ![t] = Done(t, "err_not_allocated")]
            /\ UNCHANGED <<fAllocated, grants>>
       ELSE /\ fAllocated' = [fAllocated EXCEPT ![mgrOf(t)] = @ \ {id}]
            /\ grants' = [grants EXCEPT ![id] = 0]
            /\ lt' = [lt EXCEPT ![t].pc = "free_rm", ![t].id = id,
                                ![t].res = "none"]
    /\ UNCHANGED <<lkMode, memAllocated, allocLock, lockFiles, nextIno, locked>>
    /\ UNCHANGED nonLock

\* ... then the lock file is removed; a missing file is a Storage error.
FileFreeRemove(t) ==
    /\ lt[t].pc = "free_rm"
    /\ IF lockFiles[lt[t].id] = 0
       THEN /\ lt' = [lt EXCEPT ![t] = Done(t, "err_storage")]
            /\ UNCHANGED lockFiles
       ELSE /\ lockFiles' = [lockFiles EXCEPT ![lt[t].id] = 0]
            /\ lt' = [lt EXCEPT ![t] = Done(t, "ok_free")]
    /\ UNCHANGED <<lkMode, memAllocated, allocLock, fAllocated, nextIno,
                   locked, grants>>
    /\ UNCHANGED nonLock

\* ---- retrieve(id)
\* memory.rs: any slot below num_locks; file.rs: opens the existing file.
Retrieve(t, id) ==
    /\ lt[t].pc = "idle"
    /\ lt[t].h = NoHandle
    /\ IF lkMode = "mem"
       THEN IF id >= NumLocks
            THEN lt' = [lt EXCEPT ![t] = Done(t, "err_invalid")]
            ELSE lt' = [lt EXCEPT ![t] = [Done(t, "ok_retrieve") EXCEPT
                            !.h = [id |-> id, obj |-> MemObj(id)]]]
       ELSE /\ id < NumLocks
            /\ IF lockFiles[id] = 0
               THEN lt' = [lt EXCEPT ![t] = Done(t, "err_not_found")]
               ELSE lt' = [lt EXCEPT ![t] = [Done(t, "ok_retrieve") EXCEPT
                               !.h = [id |-> id, obj |-> FileObj(lockFiles[id])]]]
    /\ UNCHANGED <<lkMode, memAllocated, allocLock, fAllocated, lockFiles,
                   nextIno, locked, grants>>
    /\ UNCHANGED nonLock

\* ---- Locker::lock / try_lock / unlock on the thread's handle
\* lock(): the CAS loop (memory) or flock(LOCK_EX) (file) returns only once
\* the lock is free.
Lock(t) ==
    /\ lt[t].pc = "idle"
    /\ lt[t].h # NoHandle
    /\ ~lt[t].held
    /\ lock_free(lt[t].h.obj)
    /\ locked' = locked \cup {lt[t].h.obj}
    /\ lt' = [lt EXCEPT ![t].held = TRUE, ![t].res = "locked"]
    /\ UNCHANGED <<lkMode, memAllocated, allocLock, fAllocated, lockFiles,
                   nextIno, grants>>
    /\ UNCHANGED nonLock

\* try_lock(): one CAS (memory) or flock(LOCK_EX | LOCK_NB) (file).
TryLock(t) ==
    /\ lt[t].pc = "idle"
    /\ lt[t].h # NoHandle
    /\ ~lt[t].held
    /\ IF lock_free(lt[t].h.obj)
       THEN /\ locked' = locked \cup {lt[t].h.obj}
            /\ lt' = [lt EXCEPT ![t].held = TRUE, ![t].res = "try_true"]
       ELSE /\ lt' = [lt EXCEPT ![t].res = "try_false"]
            /\ UNCHANGED locked
    /\ UNCHANGED <<lkMode, memAllocated, allocLock, fAllocated, lockFiles,
                   nextIno, grants>>
    /\ UNCHANGED nonLock

\* unlock(): locked.store(false) (memory) or flock(LOCK_UN) (file).
Unlock(t) ==
    /\ lt[t].pc = "idle"
    /\ lt[t].held
    /\ locked' = locked \ {lt[t].h.obj}
    /\ lt' = [lt EXCEPT ![t].held = FALSE, ![t].res = "unlocked"]
    /\ UNCHANGED <<lkMode, memAllocated, allocLock, fAllocated, lockFiles,
                   nextIno, grants>>
    /\ UNCHANGED nonLock

\* The Arc<dyn Locker> goes out of scope (not while it holds the lock).
DropLocker(t) ==
    /\ lt[t].pc = "idle"
    /\ lt[t].h # NoHandle
    /\ ~lt[t].held
    /\ lt' = [lt EXCEPT ![t].h = NoHandle, ![t].res = "none"]
    /\ UNCHANGED <<lkMode, memAllocated, allocLock, fAllocated, lockFiles,
                   nextIno, locked, grants>>
    /\ UNCHANGED nonLock

(***************************************************************************)
(* The runtime: runtime/rt_impl.rs (RuntimeImpl), litebox/box_impl.rs      *)
(* (BoxImpl), litebox/manager.rs (BoxManager), db/boxes.rs (BoxStore).     *)
(*                                                                         *)
(* Box IDs and names are short digit strings so that "ID prefix" and       *)
(* "name" lookups can collide as they can for real strings.  db is the     *)
(* SQLite store (one row per box), impls the BoxImpl objects the callers   *)
(* hold handles to, cacheId / cacheName the two Weak maps of sync_state    *)
(* (an entry is dropped with its BoxImpl: a dead Weak reads as absent),    *)
(* procs the host's process table, pidfile the shim.pid file of each box   *)
(* directory.                                                              *)
(* The runtime process uses the FileLockManager instance "p1".             *)
(***************************************************************************)
BoxIds == {<<1, 1>>, <<1, 2>>, <<2, 1>>}
Names == {<<7>>, <<1>>}
NoName == << >>
NoId == << >>
Keys == BoxIds \cup Names
Impls == 1 .. MaxImpls
NoImplRef == 0
NoBoot == 0
ProcFree == << >>
ProcOther == <<0>>
\* A box persisted by an earlier run of the runtime, with its lock.
PreBox == <<1, 1>>
PreLock == 0
AutoRemoveOpts == BOOLEAN

AbsentState ==
    [status |-> "absent", pid |-> NoPid, lock_id |-> NoLock, last_updated |-> 0]

NoRow == [name |-> NoName, ar |-> FALSE, state |-> AbsentState]

NoImpl == [id |-> NoId, name |-> NoName, ar |-> FALSE, state |-> AbsentState,
           shut |-> FALSE, cell |-> "empty", hpid |-> NoPid]

RtIdle == [pc |-> "idle", i |-> NoImplRef, id |-> NoId, key |-> NoName,
           force |-> FALSE, row |-> NoRow, lk |-> NoLock, hpid |-> NoPid,
           init |-> FALSE]

\* A Vec<BoxInfo> as the number of entries it has for each box ID; the
\* empty one stands where the last step returned no list.
NoInfos == [id \in BoxIds |-> 0]

\* BoxID::new(): an ID never drawn before (time-sortable: in this order).
IdOrder == <<PreBox, <<1, 2>>, <<2, 1>>>>

BoxID_new(u) ==
    IdOrder[CHOOSE k \in 1 .. Len(IdOrder) :
                /\ IdOrder[k] \notin u
                /\ \A j \in 1 .. (k - 1) : IdOrder[j] \in u]

\* BoxStatus::can_start: a box that was never spawned or is stopped.
can_start(s) == s \in {Starting, Stopped}

StartsWith(id, k) == Len(k) <= Len(id) /\ SubSeq(id, 1, Len(k)) = k

\* BoxStore::load(id).is_some()
Has(d, id) == d[id].state.status # "absent"

\* A faulty lookup, for comparison: it tries the ID prefix before the name.
lookup_box_mut(d, key) ==
    LET m == {id \in BoxIds : Has(d, id) /\ StartsWith(id, key)}
    IN  IF key \in BoxIds /\ Has(d, key)
        THEN [r |-> "some", id |-> key, matches |-> {}]
        ELSE IF Cardinality(m) = 1
        THEN [r |-> "some", id |-> CHOOSE id \in m : TRUE, matches |-> {}]
        ELSE IF Cardinality(m) > 1
        THEN [r |-> "err", id |-> NoId, matches |-> m]
        ELSE IF \E id \in BoxIds : Has(d, id) /\ d[id].name = key
        THEN [r |-> "some",
              id |-> CHOOSE id \in BoxIds : Has(d, id) /\ d[id].name = key,
              matches |-> {}]
        ELSE [r |-> "none", id |-> NoId, matches |-> {}]

\* BoxManager::lookup_box: exact ID, then exact name, then unique ID prefix;
\* the error for several prefix matches names them.
lookup_box(d, key) ==
    IF key \in BoxIds /\ Has(d, key)
    THEN [r |-> "some", id |-> key, matches |-> {}]
    ELSE IF \E id \in BoxIds : Has(d, id) /\ d[id].name = key
    THEN [r |-> "some",
          id |-> CHOOSE id \in BoxIds : Has(d, id) /\ d[id].name = key,
          matches |-> {}]
    ELSE LET m == {id \in BoxIds : Has(d, id) /\ StartsWith(id, key)}
         IN  IF m = {} THEN [r |-> "none", id |-> NoId, matches |-> {}]
             ELSE IF Cardinality(m) = 1
             THEN [r |-> "some", id |-> CHOOSE id \in m : TRUE,
                   matches |-> {}]
             ELSE [r |-> "err", id |-> NoId, matches |-> m]

\* A faulty variant, for comparison: it skips the name check.
add_box_name_mut(d, name) == "ok"

\* BoxManager::add_box, the name check (lookup_box_id) ...
add_box_name(d, name) ==
    IF name # NoName /\ lookup_box(d, name).r = "err"
    THEN "err_ambiguous"
    ELSE IF name # NoName /\ lookup_box(d, name).r = "some"
    THEN "err_exists"
    ELSE "ok"

\* A variant, for comparison, that reports success without inserting.
add_box_save_mut(d, id, name, ar, state) == [r |-> "ok", db |-> d]

\* ... and, in further calls to the store, the ID check and the insert.
add_box_save(d, id, name, ar, state) ==
    IF Has(d, id)
    THEN [r |-> "err_exists", db |-> d]
    ELSE [r |-> "ok",
          db |-> [d EXCEPT ![id] = [name |-> name, ar |-> ar, state |-> state]]]

\* BoxManager::save_box -> BoxStore::update_state: NotFound without a row.
save_box(d, id, state) ==
    IF Has(d, id)
    THEN [r |-> "ok", db |-> [d EXCEPT ![id].state = state]]
    ELSE [r |-> "err_not_found", db |-> d]

\* BoxStore::list_active: the rows whose status is starting or running
\* (no status is stored as 'detached').
list_active(d) ==
    {id \in BoxIds : Has(d, id) /\ d[id].state.status \in {Starting, Running}}

\* BoxStore::reset_active_boxes_after_reboot over list_active(): the rows ...
reset_active_boxes_after_reboot(d) ==
    [id \in BoxIds |->
        IF id \in list_active(d)
        THEN [d[id] EXCEPT !.state = reset_for_reboot(d[id].state, 0)]
        ELSE d[id]]

\* ... and the IDs it returns.
reset_ids(d) == list_active(d)

\* A faulty recovery of one row, for comparison: it asks whether the pid is
\* alive and not whose process it is.
recover_state_mut(id, state) ==
    IF state.pid # NoPid
    THEN IF procs[state.pid] # ProcFree
         THEN state
         ELSE IF is_active(state.status) THEN mark_crashed(state, 0) ELSE state
    ELSE IF state.status \in {Running, Starting}
         THEN set_status(state, Stopped, 0)
         ELSE state

\* recover_boxes, one row: a pid that is dead or belongs to another process
\* marks an active box crashed; an active box without pid becomes Stopped.
recover_state(id, state) ==
    IF state.pid # NoPid
    THEN IF procs[state.pid] = id
         THEN state
         ELSE IF is_active(state.status) THEN mark_crashed(state, 0) ELSE state
    ELSE IF state.status \in {Running, Starting}
         THEN set_status(state, Stopped, 0)
         ELSE state

\* invalidate_box_impl: both keys go, whoever they pointed to.
invalidate_id(c, id) == [c EXCEPT ![id] = NoImplRef]

invalidate_name(c, name) ==
    IF name = NoName THEN c ELSE [c EXCEPT ![name] = NoImplRef]

\* Rows a run of an earlier version (which allocates the lock at create) leaves.
PreRows ==
    {[name |-> NoName, ar |-> FALSE,
      state |-> [status |-> s[1], pid |-> s[2], lock_id |-> PreLock,
                 last_updated |-> 0]] :
        s \in {<<Starting, NoPid>>, <<Running, 1>>, <<Stopped, NoPid>>}}

RtInitWith(pids) ==
    /\ rtUp = FALSE
    /\ db \in {[id \in BoxIds |-> IF id = PreBox THEN r ELSE NoRow] :
                  r \in PreRows \cup {NoRow}}
    /\ used = {id \in BoxIds : Has(db, id)}
    /\ impls = [i \in Impls |-> NoImpl]
    /\ cacheId = [id \in BoxIds |-> NoImplRef]
    /\ cacheName = [n \in Names |-> NoImplRef]
    /\ procs \in {[p \in pids |-> IF p = 1 THEN v ELSE ProcFree] :
                     v \in IF db[PreBox].state.pid = 1
                           THEN {PreBox, ProcFree, ProcOther}
                           ELSE {ProcFree}}
    /\ pidfile = [id \in BoxIds |-> db[id].state.pid]
    /\ bootStored = IF Has(db, PreBox) THEN 1 ELSE NoBoot
    /\ bootCur = 1
    /\ runtime_lock = {}
    /\ rt = [t \in Threads |-> RtIdle]
    /\ out = "none"
    /\ infos = NoInfos
    /\ created = {}
    /\ lkMode = "file1"
    /\ memAllocated = [i \in LockIds |-> FALSE]
    /\ allocLock = [p \in Procs |-> None]
    /\ fAllocated = [p \in Procs |-> {}]
    /\ lockFiles = [l \in LockIds |->
                       IF l = PreLock /\ Has(db, PreBox) THEN 1 ELSE 0]
    /\ nextIno = 1
    /\ locked = {}
    /\ grants = [i \in LockIds |-> 0]
    /\ lt = [t \in Threads |-> LtIdle]

RtInit == RtInitWith(Pids)

RtDown ==
    /\ rtUp = FALSE
    /\ seq = FALSE
    /\ db = [id \in BoxIds |-> NoRow]
    /\ used = {}
    /\ impls = [i \in Impls |-> NoImpl]
    /\ cacheId = [id \in BoxIds |-> NoImplRef]
    /\ cacheName = [n \in Names |-> NoImplRef]
    /\ procs = [p \in Pids |-> ProcFree]
    /\ pidfile = [id \in BoxIds |-> NoPid]
    /\ bootStored = NoBoot
    /\ bootCur = 1
    /\ runtime_lock = {}
    /\ rt = [t \in Threads |-> RtIdle]
    /\ out = "none"
    /\ infos = NoInfos
    /\ created = {}

\* A call returns res to its caller; out is what the last step returned
\* (infos: the list it returned, if it was list_info).
Ret(t, res) ==
    /\ rt' = [rt EXCEPT ![t] = RtIdle]
    /\ out' = res
    /\ infos' = NoInfos

\* A call goes on to its next step.
Step(t, rec) ==
    /\ rt' = [rt EXCEPT ![t] = rec]
    /\ out' = "none"
    /\ infos' = NoInfos

\* A step of the environment or of the process as a whole.
Quiet == UNCHANGED rt /\ out' = "none" /\ infos' = NoInfos

\* ---- the host
\* A shim exits or is killed from outside.
ShimExit(p) ==
    /\ procs[p] \in BoxIds
    /\ procs' = [procs EXCEPT ![p] = ProcFree]
    /\ Quiet
    /\ UNCHANGED <<db, used, impls, cachevars, pidfile, bootvars, lmvars,
                   created, nonRt>>

\* The host reboots while the runtime is down: every process is gone and
\* the boot ID is one never seen before.
Reboot ==
    /\ ~rtUp
    /\ bootCur < MaxBoot
    /\ bootCur' = bootCur + 1
    /\ procs' = [p \in DOMAIN procs |-> ProcFree]
    /\ Quiet
    /\ UNCHANGED <<rtUp, seq, bootStored, runtime_lock, db, used, impls,
                   cachevars, pidfile, lmvars, created, nonRt>>

\* RuntimeLock::acquire(home_dir): an exclusive lock on the home directory
\* that does not wait; holders are the processes whose runtime holds it.
\* The variant, for comparison, never finds the home taken.
RuntimeLock_acquire_mut(holders) == TRUE

RuntimeLock_acquire(holders) == holders = {}

\* BoxStore::check_and_update_boot: no alive record is the first run and not
\* a reboot; the record is the current boot ID afterwards.
check_and_update_boot(stored, current) ==
    [is_reboot |-> IF stored = NoBoot THEN FALSE ELSE stored # current,
     stored |-> current]

\* FileLockManager::clear_all_locks: the tracking set is emptied and the
\* lock files are removed.  The variant, for comparison, clears nothing.
clear_all_locks_mut(allocated) == allocated

clear_all_locks(allocated) == {}

\* recover_boxes, the locks of the rows from the k-th on:
\* allocate_and_retrieve(lock_id) fails for an ID that is tracked (its file
\* is there), which is logged, and else creates the file and tracks the ID.
RECURSIVE reclaim_locks(_, _, _)
reclaim_locks(d, k, acc) ==
    IF k > Len(IdOrder) THEN acc
    ELSE LET id == IdOrder[k]
             l == d[id].state.lock_id
         IN  IF ~Has(d, id) \/ l = NoLock
             THEN reclaim_locks(d, k + 1, acc)
             ELSE IF l \in acc.allocated
             THEN reclaim_locks(d, k + 1, [acc EXCEPT !.errors = @ \cup {id}])
             ELSE reclaim_locks(d, k + 1,
                                [acc EXCEPT !.allocated = @ \cup {l}])

\* The lock manager of a starting runtime: FileLockManager::new tracks the
\* IDs whose files it finds, recover_boxes clears them and reclaims the IDs
\* of the rows.
recover_locks(d, files) ==
    reclaim_locks(d, 1,
        [allocated |-> clear_all_locks({l \in LockIds : files[l] # 0}),
         errors |-> {}])

\* RuntimeImpl::new in process p, after the home lock: the boot check
\* and recover_boxes with the process's own lock manager.
recover_boxes(p) ==
    /\ bootStored' = check_and_update_boot(bootStored, bootCur).stored
    /\ LET reboot == check_and_update_boot(bootStored, bootCur).is_reboot
           d1 == IF reboot THEN reset_active_boxes_after_reboot(db) ELSE db
           reclaimed == recover_locks(d1, lockFiles).allocated
       IN  /\ db' = [id \in BoxIds |->
                        IF Has(d1, id)
                        THEN [d1[id] EXCEPT
                                 !.state = recover_state(id, d1[id].state)]
                        ELSE d1[id]]
           /\ lockFiles' = [l \in LockIds |-> IF l \in reclaimed THEN 1 ELSE 0]
           /\ fAllocated' = [fAllocated EXCEPT ![p] = reclaimed]

\* new() fails on the home lock: nothing but the error.
NewRefused ==
    /\ out' = "new_err_locked"
    /\ infos' = NoInfos
    /\ UNCHANGED <<rt, rtUp, bootStored, runtime_lock, db, lockFiles,
                   fAllocated>>

\* RuntimeImpl::new in the process whose callers are modelled.
New ==
    /\ ~rtUp
    /\ IF RuntimeLock_acquire(runtime_lock)
       THEN /\ runtime_lock' = runtime_lock \cup {"p1"}
            /\ rtUp' = TRUE
            /\ recover_boxes("p1")
            /\ Quiet
       ELSE NewRefused
    /\ UNCHANGED <<seq, bootCur, used, impls, cachevars, hostvars, locked,
                   created, nonRt>>

\* RuntimeImpl::new in the modelled process when a step of recover_boxes
\* fails.  "reclaim": allocate_and_retrieve fails for the lock of row id,
\* which is logged, and recovery goes on.  "save": the store refuses
\* save_box for row id, the first row (rows come newest first) whose
\* status recovery has changed; the `?` returns the error from
\* recover_boxes and from new(), and the RuntimeImpl is dropped with its
\* home lock and lock manager.
NewFault(f, id) ==
    /\ ~rtUp
    /\ RuntimeLock_acquire(runtime_lock)
    /\ bootStored' = check_and_update_boot(bootStored, bootCur).stored
    /\ LET reboot == check_and_update_boot(bootStored, bootCur).is_reboot
           d1 == IF reboot THEN reset_active_boxes_after_reboot(db) ELSE db
           changed == {x \in BoxIds :
                          /\ Has(d1, x)
                          /\ recover_state(x, d1[x].state).status
                                # d1[x].state.status}
           pos(x) == CHOOSE k \in 1 .. Len(IdOrder) : IdOrder[k] = x
           cleared == [allocated |->
                          clear_all_locks({l \in LockIds : lockFiles[l] # 0}),
                       errors |-> {}]
       IN  /\ Has(d1, id)
           /\ IF f = "reclaim"
              THEN /\ d1[id].state.lock_id # NoLock
                   /\ LET got == recover_locks(
                                    [d1 EXCEPT ![id].state.lock_id = NoLock],
                                    lockFiles).allocated
                      IN  /\ lockFiles' = [l \in LockIds |->
                                              IF l \in got THEN 1 ELSE 0]
                          /\ fAllocated' = [fAllocated EXCEPT !["p1"] = got]
                   /\ db' = [x \in BoxIds |->
                                IF Has(d1, x)
                                THEN [d1[x] EXCEPT
                                         !.state = recover_state(x, d1[x].state)]
                                ELSE d1[x]]
                   /\ rtUp' = TRUE
                   /\ runtime_lock' = runtime_lock \cup {"p1"}
                   /\ out' = "none"
              ELSE /\ id \in changed
                   /\ \A x \in changed : pos(x) <= pos(id)
                   /\ lockFiles' = [l \in LockIds |->
                         IF l \in reclaim_locks(d1, pos(id), cleared).allocated
                         THEN 1 ELSE 0]
                   /\ fAllocated' = [fAllocated EXCEPT !["p1"] = {}]
                   /\ db' = d1
                   /\ out' = "new_err_recover"
                   /\ UNCHANGED <<rtUp, runtime_lock>>
    /\ infos' = NoInfos
    /\ UNCHANGED <<rt, seq, bootCur, used, impls, cachevars, hostvars, locked,
                   created, nonRt>>

\* RuntimeImpl::new in another process on the same home ...
NewOther ==
    /\ "p2" \notin runtime_lock
    /\ IF RuntimeLock_acquire(runtime_lock)
       THEN /\ runtime_lock' = runtime_lock \cup {"p2"}
            /\ recover_boxes("p2")
            /\ Quiet
            /\ UNCHANGED rtUp
       ELSE NewRefused
    /\ UNCHANGED <<seq, bootCur, used, impls, cachevars, hostvars, locked,
                   created, nonRt>>

\* ... and the end of that process: its runtime is dropped.
ExitOther ==
    /\ "p2" \in runtime_lock
    /\ runtime_lock' = runtime_lock \ {"p2"}
    /\ fAllocated' = [fAllocated EXCEPT !["p2"] = {}]
    /\ Quiet
    /\ UNCHANGED <<rtUp, seq, bootStored, bootCur, db, used, impls, cachevars,
                   hostvars, lockFiles, locked, created, nonRt>>

\* The runtime process ends between calls: handles, cache and the
\* manager's in-memory set go; rows, files and shims stay.
Exit ==
    /\ rtUp
    /\ \A t \in Threads : rt[t].pc = "idle"
    /\ rtUp' = FALSE
    /\ runtime_lock' = runtime_lock \ {"p1"}
    /\ impls' = [i \in Impls |-> NoImpl]
    /\ cacheId' = [id \in BoxIds |-> NoImplRef]
    /\ cacheName' = [n \in Names |-> NoImplRef]
    /\ Quiet
    /\ locked' = {}
    /\ fAllocated' = [fAllocated EXCEPT !["p1"] = {}]
    /\ created' = {}
    /\ UNCHANGED <<seq, bootStored, bootCur, db, used, hostvars, lockFiles,
                   nonRt>>

\* ---- callers
\* A caller may take a step; in the sequential specification there is one
\* caller.
Turn(t) ==
    /\ rtUp
    /\ seq => t = "t1"


kill_process(pr, p) == IF p = NoPid THEN pr ELSE [pr EXCEPT ![p] = ProcFree]

\* The inode of a lock file the runtime's manager creates (one per ID and run).
LockObj(l) == FileObj(l + 1)

\* BoxImpl::state is an RwLock: stop holds it for writing from its state
\* update until add_box has returned.
StateFree(i) == \A u \in Threads : ~(rt[u].pc = "stop_add" /\ rt[u].i = i)

\* The BoxImpl objects the callers can keep alive.
Slots == 1 .. (IF seq THEN MaxImpls ELSE MaxShared)

\* get_or_create_box_impl under the sync_state write lock: a live entry for
\* the name, then for the ID, is reused (inserted = false); otherwise a new
\* BoxImpl is created and cached under both keys.
get_or_create_box_impl(t, id, row, reused, inserted) ==
    IF \/ row.name # NoName /\ cacheName[row.name] # NoImplRef
       \/ cacheId[id] # NoImplRef
    THEN /\ Ret(t, reused)
         /\ UNCHANGED <<impls, cacheId, cacheName>>
    ELSE /\ \E i \in Slots : impls[i] = NoImpl
         /\ LET i == CHOOSE j \in Slots : impls[j] = NoImpl
            IN  /\ impls' = [impls EXCEPT ![i] =
                       [id |-> id, name |-> row.name, ar |-> row.ar,
                        state |-> row.state, shut |-> FALSE, cell |-> "empty",
                        hpid |-> NoPid]]
                /\ cacheId' = [cacheId EXCEPT ![id] = i]
                /\ cacheName' = IF row.name = NoName THEN cacheName
                                ELSE [cacheName EXCEPT ![row.name] = i]
         /\ Ret(t, inserted)

\* create(options, name): the store is asked for the name, then
\* init_box_variables draws a fresh ID and a Starting state without lock.
Create(t, name, ar) ==
    /\ Turn(t)
    /\ rt[t].pc = "idle"
    /\ IF name # NoName /\ lookup_box(db, name).r = "err"
       THEN /\ Ret(t, "create_ambiguous")
            /\ UNCHANGED used
       ELSE IF name # NoName /\ lookup_box(db, name).r = "some"
       THEN /\ Ret(t, "create_exists")
            /\ UNCHANGED used
       ELSE LET id == BoxID_new(used)
            IN
            /\ Cardinality(used) < MaxBoxes
            /\ used' = used \cup {id}
            /\ Step(t, [RtIdle EXCEPT
                         !.pc = "create_goc", !.id = id, !.key = name,
                         !.row = [name |-> name, ar |-> ar,
                                  state |-> BoxState_new(0)]])
    /\ UNCHANGED <<db, impls, cachevars, hostvars, bootvars, lmvars,
                   created, nonRt>>

\* create, second half: the cache decides; inserted = false is the
\* "already exists" error.
CreateCache(t) ==
    /\ Turn(t)
    /\ rt[t].pc = "create_goc"
    /\ get_or_create_box_impl(t, rt[t].id, rt[t].row, "create_exists",
                              "create_ok")
    /\ created' = IF seq /\ out' = "create_ok" THEN created \cup {rt[t].id}
                  ELSE created
    /\ UNCHANGED <<db, used, hostvars, bootvars, lmvars, nonRt>>

\* get(id_or_name): the cache by ID, then by name ...
Get(t, key) ==
    /\ Turn(t)
    /\ rt[t].pc = "idle"
    /\ IF \/ key \in BoxIds /\ cacheId[key] # NoImplRef
          \/ key \in Names /\ cacheName[key] # NoImplRef
       THEN Ret(t, "get_ok")
       ELSE Step(t, [RtIdle EXCEPT !.pc = "get_db", !.key = key])
    /\ UNCHANGED <<db, used, impls, cachevars, hostvars, bootvars, lmvars,
                   created, nonRt>>

\* ... then the store (lookup_box) ...
GetDb(t) ==
    /\ Turn(t)
    /\ rt[t].pc = "get_db"
    /\ LET l == lookup_box(db, rt[t].key)
       IN  IF l.r = "err" THEN Ret(t, "get_ambiguous")
           ELSE IF l.r = "none" THEN Ret(t, "get_none")
           ELSE Step(t, [RtIdle EXCEPT
                          !.pc = "get_goc", !.id = l.id, !.row = db[l.id]])
    /\ UNCHANGED <<db, used, impls, cachevars, hostvars, bootvars, lmvars,
                   created, nonRt>>

\* ... and a BoxImpl for the row that was read.
GetCache(t) ==
    /\ Turn(t)
    /\ rt[t].pc = "get_goc"
    /\ get_or_create_box_impl(t, rt[t].id, rt[t].row, "get_ok", "get_ok")
    /\ UNCHANGED <<db, used, hostvars, bootvars, lmvars, created, nonRt>>

\* start(): "already running" makes the call a no-op; the variant, for
\* comparison, never finds the box running.
already_running_mut(status) == FALSE

already_running(status) == status = Running

\* BoxImpl::is_shutdown, the flag stop() sets first; the variant, for
\* comparison, never reads it as set.
is_shutdown_mut(i) == FALSE

is_shutdown(i) == impls[i].shut

\* OnceCell::initialized, with a variant for comparison that never sees the
\* value.
initialized_mut(c) == FALSE

initialized(c) == c = "set"

\* live_state(): OnceCell::get_or_try_init.  A set cell returns at once; an
\* empty one runs init_live_state, which clones the state, needs its
\* lock_id and retrieves the lock.
live_state(t, i) ==
    /\ impls[i].cell # "busy"
    /\ IF initialized(impls[i].cell)
       THEN /\ Ret(t, "live_ok")
            /\ UNCHANGED impls
       ELSE IF impls[i].state.lock_id = NoLock
       THEN /\ Ret(t, "err_missing_lock_id")
            /\ UNCHANGED impls
       ELSE IF lockFiles[impls[i].state.lock_id] = 0
       THEN /\ Ret(t, "err_lock_not_found")
            /\ UNCHANGED impls
       ELSE /\ impls' = [impls EXCEPT ![i].cell = "busy"]
            /\ Step(t, [RtIdle EXCEPT
                         !.pc = "init_lock", !.i = i, !.id = impls[i].id,
                         !.lk = impls[i].state.lock_id,
                         !.row = [name |-> impls[i].name, ar |-> impls[i].ar,
                                  state |-> impls[i].state]])

\* LiteBox::start
Start(t, i) ==
    /\ Turn(t)
    /\ rt[t].pc = "idle"
    /\ impls[i] # NoImpl
    /\ StateFree(i)
    /\ IF is_shutdown(i)
       THEN /\ Ret(t, "err_invalidated")
            /\ UNCHANGED impls
       ELSE IF already_running(impls[i].state.status)
       THEN /\ Ret(t, "start_noop")
            /\ UNCHANGED impls
       ELSE IF ~can_start(impls[i].state.status)
       THEN /\ Ret(t, "err_cannot_start")
            /\ UNCHANGED impls
       ELSE live_state(t, i)
    /\ UNCHANGED <<db, used, cachevars, hostvars, bootvars, lmvars,
                   created, nonRt>>

\* LiteBox::exec (the command itself changes nothing here)
Exec(t, i) ==
    /\ Turn(t)
    /\ rt[t].pc = "idle"
    /\ impls[i] # NoImpl
    /\ StateFree(i)
    /\ IF is_shutdown(i)
       THEN /\ Ret(t, "err_invalidated")
            /\ UNCHANGED impls
       ELSE live_state(t, i)
    /\ UNCHANGED <<db, used, cachevars, hostvars, bootvars, lmvars,
                   created, nonRt>>

\* LiteBox::metrics (reading the handler's counters changes nothing here)
Metrics(t, i) ==
    /\ Turn(t)
    /\ rt[t].pc = "idle"
    /\ impls[i] # NoImpl
    /\ StateFree(i)
    /\ IF is_shutdown(i)
       THEN /\ Ret(t, "err_invalidated")
            /\ UNCHANGED impls
       ELSE live_state(t, i)
    /\ UNCHANGED <<db, used, cachevars, hostvars, bootvars, lmvars,
                   created, nonRt>>

\* init_live_state: LockGuard::new blocks until the box's lock is free.
InitLock(t) ==
    /\ Turn(t)
    /\ rt[t].pc = "init_lock"
    /\ lock_free(LockObj(rt[t].lk))
    /\ locked' = locked \cup {LockObj(rt[t].lk)}
    /\ Step(t, [rt[t] EXCEPT !.pc = "build"])
    /\ UNCHANGED <<db, used, impls, cachevars, hostvars, bootvars, lockFiles,
                   fAllocated, created, nonRt>>

\* A faulty failure path, for comparison: the guard's lock stays locked.
InitFail_mut(t, res) ==
    /\ procs' = kill_process(procs, rt[t].hpid)
    /\ pidfile' = [pidfile EXCEPT ![rt[t].id] = NoPid]
    /\ UNCHANGED locked
    /\ Ret(t, res)

\* The initialization failed: the armed CleanupGuard stops the shim it knows
\* and cleans the box directory, the LockGuard unlocks, the cell stays empty.
InitFail(t, res) ==
    /\ procs' = kill_process(procs, rt[t].hpid)
    /\ pidfile' = [pidfile EXCEPT ![rt[t].id] = NoPid]
    /\ locked' = locked \ {LockObj(rt[t].lk)}
    /\ Ret(t, res)

\* BoxBuilder::build up to the VMM task.  A Running snapshot attaches to the
\* shim recorded in the store (VmmAttachTask); any other spawns a shim, which
\* writes shim.pid, and records pid and Running in the store (VmmSpawnTask).
BuildVmm(t) ==
    /\ Turn(t)
    /\ rt[t].pc = "build"
    /\ LET id == rt[t].id
           i == rt[t].i
       IN  \/ /\ InitFail(t, "err_build")
              /\ impls' = [impls EXCEPT ![i].cell = "empty"]
              /\ UNCHANGED db
           \/ /\ rt[t].row.state.status = Running
              /\ IF Has(db, id) /\ db[id].state.pid # NoPid
                    /\ procs[db[id].state.pid] # ProcFree
                 THEN /\ Step(t, [rt[t] EXCEPT !.pc = "finish",
                                                !.hpid = db[id].state.pid])
                      /\ UNCHANGED <<impls, hostvars, locked>>
                 ELSE /\ InitFail(t, "err_attach")
                      /\ impls' = [impls EXCEPT ![i].cell = "empty"]
              /\ UNCHANGED db
           \/ /\ rt[t].row.state.status # Running
              /\ \E p \in DOMAIN procs :
                    /\ procs[p] = ProcFree
                    /\ procs' = [procs EXCEPT ![p] = id]
                    /\ pidfile' = [pidfile EXCEPT ![id] = p]
                    /\ db' = IF Has(db, id)
                             THEN save_box(db, id,
                                      set_status(set_pid(db[id].state, p, 0),
                                                 Running, 0)).db
                             ELSE db
                    /\ Step(t, [rt[t] EXCEPT !.pc = "finish", !.hpid = p])
              /\ UNCHANGED <<impls, locked>>
    /\ UNCHANGED <<used, cachevars, bootvars, lockFiles, fAllocated,
                   created, nonRt>>

\* The rest of build, then init_live_state's tail: shim.pid is read, pid and
\* Running are set in memory and saved, the guard is disarmed.
InitFinish(t) ==
    /\ Turn(t)
    /\ rt[t].pc = "finish"
    /\ StateFree(rt[t].i)
    /\ LET id == rt[t].id
           i == rt[t].i
           ns == set_status(set_pid(impls[i].state, pidfile[id], 0), Running, 0)
           sv == save_box(db, id, ns)
       IN  \/ /\ InitFail(t, "err_build")
              /\ impls' = [impls EXCEPT ![i].cell = "empty"]
              /\ UNCHANGED db
           \/ /\ pidfile[id] = NoPid
              /\ InitFail(t, "err_pid_file")
              /\ impls' = [impls EXCEPT ![i].cell = "empty"]
              /\ UNCHANGED db
           \/ /\ pidfile[id] # NoPid
              /\ sv.r # "ok"
              /\ InitFail(t, "err_not_found")
              /\ impls' = [impls EXCEPT ![i].cell = "empty", ![i].state = ns]
              /\ UNCHANGED db
           \/ /\ pidfile[id] # NoPid
              /\ sv.r = "ok"
              /\ db' = sv.db
              /\ impls' = [impls EXCEPT ![i].cell = "set", ![i].state = ns,
                                        ![i].hpid = rt[t].hpid]
              /\ locked' = locked \ {LockObj(rt[t].lk)}
              /\ Ret(t, "init_ok")
              /\ UNCHANGED hostvars
    /\ UNCHANGED <<used, cachevars, bootvars, lockFiles, fAllocated,
                   created, nonRt>>

\* What can go wrong in stop() before its state update: the guest's
\* shutdown RPC, handler.stop(), the removal of shim.pid.
StopFaults == {"none", "guest", "handler", "unlink"}

\* stop() goes on unless handler.stop() failed (the only `?` there); the
\* variant, for comparison, gives up on every failure.
stop_continues_mut(fault) == fault = "none"

stop_continues(fault) == fault # "handler"

\* LiteBox::stop, first part: the handle is invalidated, the guest of an
\* initialized LiveState is asked to shut down and its shim is stopped,
\* shim.pid is removed if it is there.  The caller keeps, for the rest of
\* the call, the state the box had when stop() was called and whether an
\* init pipeline was at work on it then (live.get() was None for that
\* reason).
Stop(t, i, fault) ==
    /\ Turn(t)
    /\ rt[t].pc = "idle"
    /\ impls[i] # NoImpl
    /\ fault \in {"guest", "handler"} => impls[i].cell = "set"
    /\ fault = "unlink" => pidfile[impls[i].id] # NoPid
    /\ impls' = [impls EXCEPT ![i].shut = TRUE]
    /\ IF stop_continues(fault)
       THEN /\ procs' = IF impls[i].cell = "set"
                        THEN kill_process(procs, impls[i].hpid)
                        ELSE procs
            /\ pidfile' = IF fault = "unlink" THEN pidfile
                          ELSE [pidfile EXCEPT ![impls[i].id] = NoPid]
            /\ Step(t, [RtIdle EXCEPT
                         !.pc = "stop_write", !.i = i, !.id = impls[i].id,
                         !.row = [name |-> impls[i].name, ar |-> impls[i].ar,
                                  state |-> impls[i].state],
                         !.init = impls[i].cell = "busy"])
       ELSE /\ Ret(t, "stop_err_handler")
            /\ UNCHANGED hostvars
    /\ UNCHANGED <<db, used, cachevars, bootvars, lmvars, created, nonRt>>

\* stop, the state update under the BoxImpl's state lock: Stopped and no
\* pid, then save_box for a box that has a lock_id, and for one that has
\* none add_box, whose name check comes first.  The state lock keeps the
\* new state from every reader until the store has answered.
StopWrite(t) ==
    /\ Turn(t)
    /\ rt[t].pc = "stop_write"
    /\ StateFree(rt[t].i)
    /\ LET i == rt[t].i
           im == impls[i]
           ns == set_pid(set_status(im.state, Stopped, 0), NoPid, 0)
           w == save_box(db, im.id, ns)
           c == add_box_name(db, im.name)
       IN  IF im.state.lock_id # NoLock
           THEN /\ impls' = [impls EXCEPT ![i].state = ns]
                /\ db' = w.db
                /\ IF w.r = "ok"
                   THEN Step(t, [rt[t] EXCEPT !.pc = "stop_inval"])
                   ELSE Ret(t, "stop_err_not_found")
           ELSE IF c = "ok"
           THEN /\ Step(t, [rt[t] EXCEPT !.pc = "stop_add"])
                /\ UNCHANGED <<impls, db>>
           ELSE /\ impls' = [impls EXCEPT ![i].state = ns]
                /\ Ret(t, IF c = "err_exists" THEN "stop_err_exists"
                                              ELSE "stop_err_ambiguous")
                /\ UNCHANGED db
    /\ UNCHANGED <<used, cachevars, hostvars, bootvars, lmvars,
                   created, nonRt>>

\* stop, add_box's ID check and insert.
StopAdd(t) ==
    /\ Turn(t)
    /\ rt[t].pc = "stop_add"
    /\ LET i == rt[t].i
           im == impls[i]
           ns == set_pid(set_status(im.state, Stopped, 0), NoPid, 0)
           w == add_box_save(db, im.id, im.name, im.ar, ns)
       IN  /\ impls' = [impls EXCEPT ![i].state = ns]
           /\ db' = w.db
           /\ IF w.r = "ok"
              THEN Step(t, [rt[t] EXCEPT !.pc = "stop_inval"])
              ELSE Ret(t, "stop_err_exists")
    /\ UNCHANGED <<used, cachevars, hostvars, bootvars, lmvars,
                   created, nonRt>>

\* stop, the end: invalidate_box_impl, then remove_box(id, false) for an
\* auto_remove box.
StopInvalidate(t) ==
    /\ Turn(t)
    /\ rt[t].pc = "stop_inval"
    /\ cacheId' = invalidate_id(cacheId, rt[t].id)
    /\ cacheName' = invalidate_name(cacheName, impls[rt[t].i].name)
    /\ IF impls[rt[t].i].ar
       THEN Step(t, [rt[t] EXCEPT !.pc = "rm_check", !.force = FALSE])
       ELSE Ret(t, "stop_ok")
    /\ UNCHANGED <<db, used, impls, hostvars, bootvars, lmvars,
                   created, nonRt>>

\* remove(id_or_name, force): resolve_id through the cache, then the store.
Remove(t, key, force) ==
    /\ Turn(t)
    /\ rt[t].pc = "idle"
    /\ LET l == lookup_box(db, key)
           go(id) == Step(t, [RtIdle EXCEPT !.pc = "rm_check", !.id = id,
                                            !.force = force])
       IN  IF key \in BoxIds /\ cacheId[key] # NoImplRef
           THEN go(key)
           ELSE IF key \in Names /\ cacheName[key] # NoImplRef
           THEN go(impls[cacheName[key]].id)
           ELSE IF l.r = "err"
           THEN Ret(t, "remove_ambiguous")
           ELSE IF l.r = "none"
           THEN Ret(t, "remove_not_found")
           ELSE go(l.id)
    /\ UNCHANGED <<db, used, impls, cachevars, hostvars, bootvars, lmvars,
                   created, nonRt>>

\* remove_box, the decision.  A persisted box: an active one is refused, or
\* with force its pid is killed and the row saved as Stopped.  A box only in
\* the cache: refused if active without force, else invalidated and its
\* directory deleted.
RemoveCheck(t) ==
    /\ Turn(t)
    /\ rt[t].pc = "rm_check"
    /\ (~Has(db, rt[t].id) /\ cacheId[rt[t].id] # NoImplRef)
          => StateFree(cacheId[rt[t].id])
    /\ LET id == rt[t].id
           im == impls[cacheId[id]]
       IN  IF Has(db, id)
           THEN IF is_active(db[id].state.status)
                THEN IF rt[t].force
                     THEN LET ns == set_pid(set_status(db[id].state, Stopped, 0),
                                            NoPid, 0)
                          IN  /\ procs' = kill_process(procs, db[id].state.pid)
                              /\ db' = save_box(db, id, ns).db
                              /\ Step(t, [rt[t] EXCEPT !.pc = "rm_delete",
                                      !.row = [db[id] EXCEPT !.state = ns]])
                              /\ UNCHANGED <<cachevars, pidfile>>
                     ELSE /\ Ret(t, "remove_active")
                          /\ UNCHANGED <<db, cachevars, hostvars>>
                ELSE /\ Step(t, [rt[t] EXCEPT !.pc = "rm_delete",
                                               !.row = db[id]])
                     /\ UNCHANGED <<db, cachevars, hostvars>>
           ELSE IF cacheId[id] # NoImplRef
           THEN IF is_active(im.state.status) /\ ~rt[t].force
                THEN /\ Ret(t, "remove_active")
                     /\ UNCHANGED <<db, cachevars, hostvars>>
                ELSE /\ cacheId' = invalidate_id(cacheId, id)
                     /\ cacheName' = invalidate_name(cacheName, im.name)
                     /\ pidfile' = [pidfile EXCEPT ![id] = NoPid]
                     /\ Ret(t, "remove_ok")
                     /\ UNCHANGED <<db, procs>>
           ELSE /\ Ret(t, "remove_not_found")
                /\ UNCHANGED <<db, cachevars, hostvars>>
    /\ created' = IF out' = "remove_ok" THEN created \ {rt[t].id} ELSE created
    /\ UNCHANGED <<used, impls, bootvars, lmvars, nonRt>>

\* FileLockManager::free, the tracking set of the runtime's manager; the
\* variant, for comparison, leaves the ID tracked.
free_mut(allocated, l) == allocated

free(allocated, l) == [allocated EXCEPT !["p1"] = @ \ {l}]

\* remove_box, the removal: the row is deleted, the lock of the row that
\* was read is freed (a failure is only logged), the directory is deleted,
\* the cache entries are invalidated.
RemoveDelete(t) ==
    /\ Turn(t)
    /\ rt[t].pc = "rm_delete"
    /\ LET id == rt[t].id
           l == rt[t].row.state.lock_id
       IN  IF ~Has(db, id)
           THEN /\ Ret(t, "remove_not_found")
                /\ UNCHANGED <<db, cachevars, pidfile, lockFiles,
                               fAllocated>>
           ELSE /\ db' = [db EXCEPT ![id] = NoRow]
                /\ IF l # NoLock /\ l \in fAllocated["p1"]
                   THEN /\ fAllocated' = free(fAllocated, l)
                        /\ lockFiles' = [lockFiles EXCEPT ![l] = 0]
                   ELSE UNCHANGED <<lockFiles, fAllocated>>
                /\ pidfile' = [pidfile EXCEPT ![id] = NoPid]
                /\ cacheId' = invalidate_id(cacheId, id)
                /\ cacheName' = invalidate_name(cacheName, rt[t].row.name)
                /\ Ret(t, "remove_ok")
    /\ created' = IF out' = "remove_ok" THEN created \ {rt[t].id} ELSE created
    /\ UNCHANGED <<used, impls, procs, bootvars, locked, nonRt>>

\* list_info, the merge: one entry for each row read from the store, then
\* one for each box of the cache whose Weak is alive and whose ID was not seen.
list_info_merge(seen_ids, cid) ==
    [id \in BoxIds |->
        (IF id \in seen_ids THEN 1 ELSE 0)
      + (IF id \notin seen_ids /\ cid[id] # NoImplRef THEN 1 ELSE 0)]

\* exists(id_or_name): a live cache entry by ID, then by name, then the
\* store (lookup_box_id, whose error is passed on).
exists(d, cid, cname, key) ==
    IF key \in BoxIds /\ cid[key] # NoImplRef THEN "true"
    ELSE IF key \in Names /\ cname[key] # NoImplRef THEN "true"
    ELSE IF lookup_box(d, key).r = "err" THEN "err"
    ELSE IF lookup_box(d, key).r = "some" THEN "true"
    ELSE "false"

\* list_info(): all_boxes reads the store, then the cache is read under the
\* sync_state lock and the merged list returned.
ListInfo(t) ==
    /\ Turn(t)
    /\ rt[t].pc = "idle"
    /\ rt' = [rt EXCEPT ![t] = RtIdle]
    /\ out' = "list_ok"
    /\ infos' = list_info_merge({id \in BoxIds : Has(db, id)}, cacheId)
    /\ UNCHANGED <<db, used, impls, cachevars, hostvars, bootvars, lmvars,
                   created, nonRt>>

\* The last handle to a BoxImpl is dropped: its Weak entries are dead.  The
\* BoxImpl objects alive are numbered in the order of their creation.
DropHandle(i) ==
    /\ rtUp
    /\ impls[i] # NoImpl
    /\ \A t \in Threads : rt[t].i # i
    /\ LET shift(j) == IF j > i THEN j - 1 ELSE j
           weak(j) == IF j = i THEN NoImplRef ELSE shift(j)
       IN  /\ impls' = [j \in Impls |->
                           IF j < i THEN impls[j]
                           ELSE IF j < MaxImpls THEN impls[j + 1] ELSE NoImpl]
           /\ cacheId' = [id \in BoxIds |-> weak(cacheId[id])]
           /\ cacheName' = [n \in Names |-> weak(cacheName[n])]
           /\ rt' = [t \in Threads |-> [rt[t] EXCEPT !.i = shift(@)]]
    /\ out' = "none"
    /\ infos' = NoInfos
    /\ UNCHANGED <<db, used, hostvars, bootvars, lmvars, created, nonRt>>

Next ==
    \/ New
    \/ Exit
    \/ Reboot
    \/ \E p \in Pids : ShimExit(p)
    \/ \E t \in Threads, n \in Names, ar \in AutoRemoveOpts :
          Create(t, n, ar)
    \/ \E t \in Threads : CreateCache(t)
    \/ \E t \in Threads, k \in Keys : Get(t, k)
    \/ \E t \in Threads : GetDb(t)
    \/ \E t \in Threads : GetCache(t)
    \/ \E t \in Threads, i \in Impls : Start(t, i)
    \/ \E t \in Threads, i \in Impls : Exec(t, i)
    \/ \E t \in Threads, i \in Impls : Metrics(t, i)
    \/ \E t \in Threads : InitLock(t)
    \/ \E t \in Threads : BuildVmm(t)
    \/ \E t \in Threads : InitFinish(t)
    \/ \E t \in Threads, i \in Impls, f \in StopFaults : Stop(t, i, f)
    \/ \E t \in Threads : StopWrite(t)
    \/ \E t \in Threads : StopAdd(t)
    \/ \E t \in Threads : StopInvalidate(t)
    \/ \E t \in Threads, k \in Keys, f \in BOOLEAN : Remove(t, k, f)
    \/ \E t \in Threads : RemoveCheck(t)
    \/ \E t \in Threads : RemoveDelete(t)
    \/ \E t \in Threads : ListInfo(t)
    \/ \E i \in Impls : DropHandle(i)

(***************************************************************************)
(* Specifications                                                          *)
(***************************************************************************)
InitState == StateInit /\ LockIdle /\ lkMode = "mem" /\ RtDown

SpecState ==
    /\ InitState
    /\ [][\/ \E s \in BoxStatus : TransitionTo(s)
          \/ \E s \in BoxStatus : ForceStatus(s)
          \/ \E p \in Pids \cup {NoPid} : SetPid(p)]_vars

InitLocks == LockInit /\ StateIdle /\ RtDown

SpecLock ==
    /\ InitLocks
    /\ [][\/ \E t \in Threads : AllocBegin(t)
          \/ \E t \in Threads : AllocLock(t)
          \/ \E t \in Threads : MemAllocLoad(t)
          \/ \E t \in Threads : MemAllocStore(t)
          \/ \E t \in Threads : FileAllocCreate(t)
          \/ \E t \in Threads : FileAllocTrack(t)
          \/ \E t \in Threads, id \in 0 .. NumLocks : MemAllocateAndRetrieve(t, id)
          \/ \E t \in Threads, id \in LockIds : FileAarLock(t, id)
          \/ \E t \in Threads : FileAarCreate(t)
          \/ \E t \in Threads, id \in 0 .. NumLocks : MemFree(t, id)
          \/ \E t \in Threads, id \in LockIds : FileFreeUntrack(t, id)
          \/ \E t \in Threads : FileFreeRemove(t)
          \/ \E t \in Threads, id \in 0 .. NumLocks : Retrieve(t, id)
          \/ \E t \in Threads : Lock(t)
          \/ \E t \in Threads : TryLock(t)
          \/ \E t \in Threads : Unlock(t)
          \/ \E t \in Threads : DropLocker(t)]_vars

InitLockProcs == ProcsInit /\ StateIdle /\ RtDown

SpecLockProcs ==
    /\ InitLockProcs
    /\ [][\/ \E t \in Threads : AllocBegin(t)
          \/ \E t \in Threads : AllocLock(t)
          \/ \E t \in Threads : FileAllocCreate(t)
          \/ \E t \in Threads : FileAllocTrack(t)
          \/ \E t \in Threads, id \in LockIds : FileAarLock(t, id)
          \/ \E t \in Threads : FileAarCreate(t)
          \/ \E t \in Threads, id \in LockIds : FileFreeUntrack(t, id)
          \/ \E t \in Threads : FileFreeRemove(t)
          \/ \E t \in Threads, id \in LockIds : Retrieve(t, id)
          \/ \E t \in Threads : Lock(t)
          \/ \E t \in Threads : TryLock(t)
          \/ \E t \in Threads : Unlock(t)
          \/ \E t \in Threads : DropLocker(t)]_vars

\* The runtime with concurrent callers.
Init == RtInit /\ seq = FALSE /\ StateIdle

Spec == Init /\ [][Next]_vars

\* Two processes and one home directory: the runtime of the modelled
\* process, with callers that create boxes and drop their handles, and a
\* runtime of another process start and end, across reboots.
NextHome ==
    \/ New
    \/ Exit
    \/ NewOther
    \/ ExitOther
    \/ Reboot
    \/ \E p \in Pids : ShimExit(p)
    \/ \E t \in Threads, n \in Names, ar \in AutoRemoveOpts :
          Create(t, n, ar)
    \/ \E t \in Threads : CreateCache(t)
    \/ \E i \in Impls : DropHandle(i)

SpecHome == Init /\ [][NextHome]_vars

\* lookup_box on every store of a few boxes.  A name is any string: also
\* one that is the ID of another box, or the beginning of IDs.  Names are
\* unique among the rows.
LookupNames == Names \cup {<<1, 2>>}

LookupKeys == BoxIds \cup LookupNames \cup {<<2>>, <<3>>}

LookupStores ==
    {d \in [BoxIds -> {[name |-> n, ar |-> FALSE,
                        state |-> [BoxState_new(0) EXCEPT !.status = Stopped]] :
                          n \in LookupNames \cup {NoName}} \cup {NoRow}] :
        \A a, b \in BoxIds :
           (a # b /\ Has(d, a) /\ Has(d, b) /\ d[a].name # NoName)
              => d[a].name # d[b].name}

InitLookup ==
    /\ rtUp = FALSE
    /\ db \in LookupStores
    /\ used = {id \in BoxIds : Has(db, id)}
    /\ impls = [i \in Impls |-> NoImpl]
    /\ cacheId = [id \in BoxIds |-> NoImplRef]
    /\ cacheName = [n \in Names |-> NoImplRef]
    /\ procs = [p \in Pids |-> ProcFree]
    /\ pidfile = [id \in BoxIds |-> NoPid]
    /\ bootStored = 1
    /\ bootCur = 1
    /\ runtime_lock = {}
    /\ rt = [t \in Threads |-> RtIdle]
    /\ out = "none"
    /\ infos = NoInfos
    /\ created = {}
    /\ seq = TRUE
    /\ LockIdle
    /\ lkMode = "file1"
    /\ StateIdle

\* BoxManager::lookup_box(id_or_name) is called on the store: out is Some,
\* None or the error, and the caller's record has the key and the box found.
LookupBox(key) ==
    /\ LET l == lookup_box(db, key)
       IN  /\ rt' = [rt EXCEPT !["t1"] = [RtIdle EXCEPT !.key = key,
                                                         !.id = l.id]]
           /\ out' = l.r
    /\ infos' = NoInfos
    /\ UNCHANGED <<db, used, impls, cachevars, hostvars, bootvars, lmvars,
                   created, nonRt>>

SpecLookup == InitLookup /\ [][\E key \in LookupKeys : LookupBox(key)]_vars

\* One box found in the store, or none, on a host with room for two shims:
\* get, start, exec, stop and handle drops, one call at a time, while shims
\* exit and the runtime ends and starts again.
ShimPids == 1 .. MaxShims

InitShim == RtInitWith(ShimPids) /\ seq = TRUE /\ StateIdle

SpecShim ==
    /\ InitShim
    /\ [][\/ New
          \/ Exit
          \/ \E p \in ShimPids : ShimExit(p)
          \/ \E t \in Threads, k \in Keys : Get(t, k)
          \/ \E t \in Threads : GetDb(t)
          \/ \E t \in Threads : GetCache(t)
          \/ \E t \in Threads, i \in Impls : Start(t, i)
          \/ \E t \in Threads, i \in Impls : Exec(t, i)
          \/ \E t \in Threads : InitLock(t)
          \/ \E t \in Threads : BuildVmm(t)
          \/ \E t \in Threads : InitFinish(t)
          \/ \E t \in Threads, i \in Impls, f \in StopFaults : Stop(t, i, f)
          \/ \E t \in Threads : StopWrite(t)
          \/ \E t \in Threads : StopInvalidate(t)
          \/ \E i \in Impls : DropHandle(i)
          ]_vars

\* A home directory left by earlier runs: rows of boxes, stopped or running
\* with their shim's pid, each with a lock of its own or none, and lock
\* files for the locks of the rows and possibly for others.
RecoverStores ==
    {d \in [BoxIds -> {[name |-> NoName, ar |-> FALSE,
                        state |-> [BoxState_new(0) EXCEPT
                                      !.status = s[1], !.pid = s[2],
                                      !.lock_id = l]] :
                          l \in LockIds \cup {NoLock},
                          s \in {<<Stopped, NoPid>>, <<Running, 1>>}}
                          \cup {NoRow}] :
        \A a, b \in BoxIds :
           (a # b /\ Has(d, a) /\ Has(d, b))
              => /\ d[a].state.lock_id # NoLock
                       => d[a].state.lock_id # d[b].state.lock_id
                 /\ d[a].state.pid # NoPid => d[b].state.pid = NoPid}

InitRecover ==
    /\ rtUp = FALSE
    /\ db \in RecoverStores
    /\ used = {id \in BoxIds : Has(db, id)}
    /\ impls = [i \in Impls |-> NoImpl]
    /\ cacheId = [id \in BoxIds |-> NoImplRef]
    /\ cacheName = [n \in Names |-> NoImplRef]
    /\ procs \in {[p \in Pids |-> v] :
                     v \in {ProcFree} \cup {id \in BoxIds :
                                              db[id].state.pid # NoPid}}
    /\ pidfile = [id \in BoxIds |-> db[id].state.pid]
    /\ bootStored = 1
    /\ bootCur = 1
    /\ runtime_lock = {}
    /\ rt = [t \in Threads |-> RtIdle]
    /\ out = "none"
    /\ infos = NoInfos
    /\ created = {}
    /\ seq = TRUE
    /\ lkMode = "file1"
    /\ memAllocated = [i \in LockIds |-> FALSE]
    /\ allocLock = [p \in Procs |-> None]
    /\ fAllocated = [p \in Procs |-> {}]
    /\ lockFiles \in {f \in [LockIds -> {0, 1}] :
                        \A id \in BoxIds :
                           (Has(db, id) /\ db[id].state.lock_id # NoLock)
                              => f[db[id].state.lock_id] = 1}
    /\ nextIno = 1
    /\ locked = {}
    /\ grants = [i \in LockIds |-> 0]
    /\ lt = [t \in Threads |-> LtIdle]
    /\ StateIdle

SpecRecover == InitRecover /\ [][NextHome]_vars

\* ... where recovery meets failures of the lock directory and the store.
SpecRecoverFaults ==
    InitRecover
    /\ [][\/ NextHome
          \/ \E f \in {"reclaim", "save"}, id \in BoxIds : NewFault(f, id)]_vars

\* Nothing of the runtime is in use: no lock manager at work, no runtime up.
InitIdle == StateIdle /\ LockIdle /\ lkMode = "mem" /\ RtDown

\* Runs of the init pipeline, one after another.
SpecPipe ==
    /\ InitIdle
    /\ [][\/ PipeRun
          \/ \E s \in Joined, r \in {"ok", "err"} : JoinEnd(s, r)
          \/ \E r \in {"ok", "err"} : SeqStage(r)]_vars

\* Callers in operations of the runtime, on the same or on different boxes.
SpecOrder ==
    /\ InitIdle
    /\ [][\E t \in 1 .. MaxCallers, b \in 1 .. MaxBoxes,
             op \in {"create", "get", "list_info", "start", "stop",
                     "stop_auto_remove", "remove", "remove_unpersisted"} :
             LoStep(t, op, b)]_vars

\* One shim after another, each with its parent; the watchdog thread and
\* the start of the shim are scheduled as long as they can run.
SpecWatchdog ==
    /\ InitIdle
    /\ [][\/ \E d \in BOOLEAN, j \in {"bwrap", "sandbox-exec", "direct"} :
                ShimSpawn(d, j)
          \/ \E r \in {"ok", "err", "end"} : ShimMain(r)
          \/ start_parent_watchdog
          \/ \E e \in {"exit", "reuse"} : ParentPid(e)]_vars
    /\ WF_vars(start_parent_watchdog)
    /\ WF_vars(\E r \in {"ok", "err"} : ShimMain(r))

\* The runtime with one call at a time.
InitSeq == RtInit /\ seq = TRUE /\ StateIdle

SpecSeq == InitSeq /\ [][Next]_vars

(***************************************************************************)
(* Properties                                                              *)
(***************************************************************************)

\* C1: after any sequence of create, start, exec, stop, remove and recovery,
\* every change of a box's status, in a BoxImpl and in the store, is a
\* transition of the table (Unknown -> any; Starting -> Running, Stopped,
\* Unknown; Running -> Stopping, Stopped, Unknown; Stopping -> Stopped,
\* Unknown; Stopped -> Starting, Unknown).
C1_StatusChangesFollowTable ==
    [][LET table == ({Unknown} \X BoxStatus)
                    \cup ({Starting} \X {Running, Stopped, Unknown})
                    \cup ({Running} \X {Stopping, Stopped, Unknown})
                    \cup ({Stopping} \X {Stopped, Unknown})
                    \cup ({Stopped} \X {Starting, Unknown})
           legal(a, b) == a = b \/ <<a, b>> \in table
       IN  /\ \A id \in BoxIds :
                 (Has(db, id) /\ Has(db', id))
                    => legal(db[id].state.status, db'[id].state.status)
           /\ \A i \in Impls :
                 (/\ impls[i] # NoImpl
                  /\ impls'[i].id = impls[i].id
                  /\ impls' = [impls EXCEPT ![i] = impls'[i]])
                    => legal(impls[i].state.status, impls'[i].state.status)
      ]_vars

\* C2: transition_to(new) succeeds and sets the status exactly when the pair
\* (current, new) is in the transition table (Unknown -> any; Starting ->
\* Running, Stopped, Unknown; Running -> Stopping, Stopped, Unknown;
\* Stopping -> Stopped, Unknown; Stopped -> Starting, Unknown); otherwise it
\* returns InvalidState and leaves status, pid and every other field as they
\* were.
C2_TransitionToFollowsTable ==
    LET table == ({Unknown} \X BoxStatus)
                 \cup ({Starting} \X {Running, Stopped, Unknown})
                 \cup ({Running} \X {Stopping, Stopped, Unknown})
                 \cup ({Stopping} \X {Stopped, Unknown})
                 \cup ({Stopped} \X {Starting, Unknown})
    IN  stRes # "none" =>
            IF <<stPrev.status, stArg>> \in table
            THEN /\ stRes = "Ok"
                 /\ st.status = stArg
                 /\ st.pid = stPrev.pid
                 /\ st.lock_id = stPrev.lock_id
            ELSE /\ stRes = "InvalidState"
                 /\ st = stPrev

\* A rejected transition (Stopped -> Running) on a state that carries a pid
\* and a lock.
C2_WitnessRejected ==
    /\ stRes = "InvalidState"
    /\ stPrev.status = Stopped
    /\ stArg = Running
    /\ stPrev.pid # NoPid
    /\ stPrev.lock_id # NoLock

\* C3: in every reachable state of every box, in the BoxImpl's BoxState and
\* in the persisted row, status = Stopped implies pid = None.
C3_StoppedHasNoPid ==
    /\ \A id \in BoxIds :
          (Has(db, id) /\ db[id].state.status = Stopped)
             => db[id].state.pid = NoPid
    /\ \A i \in Impls :
          (impls[i] # NoImpl /\ impls[i].state.status = Stopped)
             => impls[i].state.pid = NoPid

\* A box whose shim was started through this handle, and recorded with its
\* pid, has been stopped: Stopped in the handle and in the store.
C3_WitnessStoppedAfterRunning ==
    \E i \in Impls :
        /\ impls[i] # NoImpl
        /\ impls[i].cell = "set"
        /\ impls[i].hpid # NoPid
        /\ impls[i].state.status = Stopped
        /\ Has(db, impls[i].id)
        /\ db[impls[i].id].state.status = Stopped

\* C4: after any sequence of create, start, stop and remove, no two
\* distinct persisted boxes have the same non-empty name.
C4_PersistedNamesUnique ==
    \A a, b \in BoxIds :
        (/\ a # b
         /\ Has(db, a)
         /\ Has(db, b)
         /\ db[a].name # NoName)
            => db[a].name # db[b].name

\* A stop that would have persisted a second box of the same name has been
\* refused.
C4_WitnessSecondRefused ==
    /\ out = "stop_err_exists"
    /\ \E i \in Impls, a \in BoxIds :
          /\ impls[i] # NoImpl
          /\ impls[i].name # NoName
          /\ ~Has(db, impls[i].id)
          /\ a # impls[i].id
          /\ Has(db, a)
          /\ db[a].name = impls[i].name

\* C5: under every interleaving of concurrent create calls with one name,
\* and of a stop that persists a box of that name, at most one box with the
\* name exists (persisted, or registered in the runtime's cache).
C5_OneBoxPerName ==
    \A n \in Names :
        Cardinality({id \in BoxIds :
                        \/ Has(db, id) /\ db[id].name = n
                        \/ /\ cacheId[id] # NoImplRef
                           /\ impls[cacheId[id]].name = n}) <= 1

\* C6: while a box named n exists (persisted or only in memory), create(n)
\* fails with "already exists" and creates nothing; once that box has been
\* removed (a handle to it may remain: it is neither persisted nor
\* registered any more), create(n) succeeds.  A call ends in its first
\* step (the store's answer) or in its second (the cache's).
C6_CreateFailsWhileNameExists ==
    [][LET NameExists(n) ==
               \/ \E id \in BoxIds : Has(db, id) /\ db[id].name = n
               \/ cacheName[n] # NoImplRef
           Removed(n) ==
               \E i \in Impls :
                   /\ impls[i].name = n
                   /\ ~Has(db, impls[i].id)
                   /\ cacheId[impls[i].id] # i
       IN  \A t \in Threads :
              /\ \A n \in Names, ar \in AutoRemoveOpts :
                    Create(t, n, ar) =>
                        IF NameExists(n)
                        THEN \/ out' = "create_exists"
                             \/ rt'[t].pc = "create_goc"
                        ELSE Removed(n) => rt'[t].pc = "create_goc"
              /\ CreateCache(t) =>
                    IF NameExists(rt[t].key)
                    THEN /\ out' = "create_exists"
                         /\ UNCHANGED <<db, impls, cacheId, cacheName>>
                    ELSE Removed(rt[t].key) => out' = "create_ok"
      ]_vars

\* C7: an ID returned by allocate (or granted by allocate_and_retrieve) is
\* not handed out again by the same manager until it is freed, under every
\* interleaving of allocate, allocate_and_retrieve and free.
C7_NoIdHandedOutTwice ==
    \A id \in LockIds : grants[id] <= 1

C9_OneHolderPerId ==
    \A t, u \in Threads :
        (t # u /\ lt[t].held /\ lt[u].held) => lt[t].h.id # lt[u].h.id

\* C10: create, start, stop and remove on one box are serialized by the
\* box's lock: while one caller is between the first and the last state
\* change of such an operation on a box that has a lock (the init pipeline
\* from the lock's acquisition on, stop from the shim's stop to the cache
\* invalidation, remove from its decision to the deletion), no other
\* caller is.
C10_OperationsSerialized ==
    LET crit == {"build", "finish", "stop_write", "stop_add", "stop_inval",
                 "rm_delete"}
    IN  \A t, u \in Threads :
            (/\ t # u
             /\ rt[t].pc \in crit
             /\ rt[u].pc \in crit
             /\ Has(db, rt[t].id)
             /\ db[rt[t].id].state.lock_id # NoLock)
               => rt[t].id # rt[u].id

\* C11: the LiveState of a BoxImpl is initialized exactly once under
\* concurrent start, exec and metrics calls: a pipeline run succeeds only on
\* a cell being initialized and the set cell keeps its LiveState for good;
\* the pipeline runs while its caller holds the box's lock, alone; a call
\* served from the cell sees that LiveState and changes nothing.
C11_LiveStateOnce ==
    [][LET pipeline == {"build", "finish"}
       IN  /\ \A i \in Impls :
                 (/\ impls[i].cell = "set"
                  /\ impls'[i].id = impls[i].id
                  /\ impls' = [impls EXCEPT ![i] = impls'[i]])
                    => /\ impls'[i].cell = "set"
                       /\ impls'[i].hpid = impls[i].hpid
           /\ \A t \in Threads :
                 rt'[t].pc \in pipeline
                    => /\ LockObj(rt'[t].lk) \in locked'
                       /\ \A u \in Threads \ {t} :
                             ~(rt'[u].pc \in pipeline /\ rt'[u].lk = rt'[t].lk)
           /\ out' = "init_ok"
                 => \E t \in Threads :
                       /\ rt[t].pc = "finish"
                       /\ rt'[t].pc = "idle"
                       /\ impls[rt[t].i].cell = "busy"
                       /\ impls'[rt[t].i].cell = "set"
           /\ out' = "live_ok"
                 => /\ \E i \in Impls : impls[i].cell = "set"
                    /\ UNCHANGED <<impls, db, hostvars, locked>>
      ]_vars

\* A later caller is served from the cell a pipeline run has set.
C11_WitnessServedFromCell ==
    /\ out = "live_ok"
    /\ \E i \in Impls : impls[i].cell = "set" /\ impls[i].hpid # NoPid

\* C12: create neither persists the box nor allocates a lock (the new
\* BoxImpl is Starting without lock_id, store and lock files untouched), and
\* the first start or exec on the freshly created box allocates a lock ID and
\* enters the init pipeline with it (which persists the box and ends with
\* Running).
C12_PersistedAtFirstUse ==
    [][/\ out' = "create_ok"
          => /\ UNCHANGED <<db, lmvars>>
             /\ \E i \in Impls :
                   /\ impls[i] = NoImpl
                   /\ impls'[i].state = BoxState_new(0)
       /\ \A t \in Threads, i \in Impls :
             (/\ Start(t, i) \/ Exec(t, i)
              /\ impls[i].state = BoxState_new(0)
              /\ ~Has(db, impls[i].id)
              /\ ~is_shutdown(i))
                => /\ rt'[t].pc = "init_lock"
                   /\ rt'[t].lk \in LockIds
      ]_vars

\* C13: start() on a box whose status is Running returns Ok without running
\* the init pipeline and without changing the box's state, pid, persisted
\* rows or shim process.
C13_StartOnRunningIsNoop ==
    [][\A t \in Threads, i \in Impls :
          (Start(t, i) /\ impls[i].state.status = Running)
             => /\ out' = "start_noop"
                /\ UNCHANGED <<impls, db, hostvars, cachevars, lmvars>>
      ]_vars

\* C13 as the code has it: the same for a handle that stop() has not
\* invalidated; on an invalidated handle start() fails with InvalidState,
\* and in both cases nothing changes.
C13_StartOnRunningLiveHandle ==
    [][\A t \in Threads, i \in Impls :
          (Start(t, i) /\ impls[i].state.status = Running)
             => /\ out' = IF is_shutdown(i) THEN "err_invalidated"
                                             ELSE "start_noop"
                /\ UNCHANGED <<impls, db, hostvars, cachevars, lmvars>>
      ]_vars

\* start() has returned from its no-op branch on a running box.
C13_WitnessNoop ==
    /\ out = "start_noop"
    /\ \E i \in Impls :
          /\ impls[i].state.status = Running
          /\ impls[i].cell = "set"
          /\ ~impls[i].shut

\* C14: once stop() has been called on a handle (its first statement sets
\* is_shutdown), the flag stays set, every later start, exec or metrics on
\* that handle fails with InvalidState("Handle invalidated after stop()")
\* and changes nothing: no LiveState is initialized, no shim is spawned.
C14_InvalidatedHandleRefuses ==
    [][/\ \A i \in Impls :
             (/\ impls[i] # NoImpl
              /\ impls[i].shut
              /\ impls'[i].id = impls[i].id
              /\ impls' = [impls EXCEPT ![i] = impls'[i]])
                => impls'[i].shut
       /\ \A i \in Impls, t \in Threads :
             (/\ impls[i] # NoImpl
              /\ impls[i].shut
              /\ rt[t].pc = "idle"
              /\ Start(t, i) \/ Exec(t, i) \/ Metrics(t, i))
                => /\ out' = "err_invalidated"
                   /\ UNCHANGED <<impls, db, hostvars, cachevars, lmvars>>
      ]_vars

\* A call on a stopped handle has been refused.
C14_WitnessRefused ==
    /\ out = "err_invalidated"
    /\ \E i \in Impls : impls[i] # NoImpl /\ impls[i].shut

\* C15: when stop() returns Ok (also after the remove of an auto_remove
\* box), the box's state is Stopped with pid = None in memory and in the
\* store, where a row is there: updated if it existed, inserted if the box
\* was never persisted.
C15_StopPersistsStopped ==
    [][\A t \in Threads :
          (/\ rt[t].i # NoImplRef
           /\ rt[t].pc \in {"stop_inval", "rm_check", "rm_delete"}
           /\ rt'[t].pc = "idle"
           /\ out' \in {"stop_ok", "remove_ok"})
             => LET st1 == impls'[rt[t].i].state
                    id == rt[t].id
                IN  /\ st1.status = Stopped /\ st1.pid = NoPid
                    /\ Has(db', id)
                    /\ db'[id].state.status = Stopped
                    /\ db'[id].state.pid = NoPid
      ]_vars

\* C15 as the code has it: the same for a box without auto_remove; the rows
\* of an auto_remove box are gone when stop() returns Ok.
C15_StopPersistsUnlessAutoRemove ==
    [][\A t \in Threads :
          (/\ rt[t].i # NoImplRef
           /\ rt[t].pc \in {"stop_inval", "rm_check", "rm_delete"}
           /\ rt'[t].pc = "idle"
           /\ out' \in {"stop_ok", "remove_ok"})
             => LET st1 == impls'[rt[t].i].state
                    id == rt[t].id
                IN  /\ st1.status = Stopped /\ st1.pid = NoPid
                    /\ out' = "stop_ok" <=> ~impls[rt[t].i].ar
                    /\ IF impls[rt[t].i].ar
                       THEN ~Has(db', id)
                       ELSE /\ Has(db', id)
                            /\ db'[id].state.status = Stopped
                            /\ db'[id].state.pid = NoPid
      ]_vars

\* stop() has returned Ok on a box that was never persisted before (it has
\* no lock_id) and whose rows are now in the store.
C15_WitnessUpsert ==
    /\ out = "stop_ok"
    /\ \E i \in Impls :
          /\ impls[i] # NoImpl
          /\ impls[i].shut
          /\ impls[i].state.lock_id = NoLock
          /\ Has(db, impls[i].id)
          /\ db[impls[i].id].state = impls[i].state

\* C16: stop() is best-effort: after a failed guest shutdown RPC or a failed
\* removal of shim.pid the call goes on to its state update, which sets
\* Stopped and no pid in memory and, when the store takes the write, in the
\* store, and its last step invalidates the cache entries of the box.
C16_StopBestEffort ==
    [][\A t \in Threads :
          /\ \A i \in Impls, f \in {"guest", "unlink"} :
                Stop(t, i, f) => rt'[t].pc = "stop_write"
          /\ (rt[t].pc \in {"stop_write", "stop_add"} /\ rt'[t].pc # rt[t].pc)
                => LET st1 == impls'[rt[t].i].state
                   IN  /\ \/ rt'[t].pc = "stop_add"
                          \/ st1.status = Stopped /\ st1.pid = NoPid
                       /\ rt'[t].pc = "stop_inval"
                             => /\ Has(db', rt[t].id)
                                /\ db'[rt[t].id].state = st1
          /\ (rt[t].pc = "stop_inval" /\ rt'[t].pc # rt[t].pc)
                => LET name == impls[rt[t].i].name
                   IN  /\ cacheId'[rt[t].id] = NoImplRef
                       /\ name # NoName => cacheName'[name] = NoImplRef
      ]_vars

\* stop() has returned Ok although shim.pid could not be removed.
C16_WitnessUnlinkFailed ==
    /\ out = "stop_ok"
    /\ \E id \in BoxIds :
          /\ pidfile[id] # NoPid
          /\ Has(db, id)
          /\ db[id].state.status = Stopped
          /\ cacheId[id] = NoImplRef

\* C17: stop() called on a box that is starting (never spawned: its status
\* is Starting; or an init pipeline is at work on it and has not reached
\* Running) ends, once the concurrent start or exec has ended too, with
\* status Stopped and no shim process of the box alive.
C17_StopOfStartingLeavesNoShim ==
    [][\A t \in Threads :
          (/\ rt[t].pc = "stop_inval"
           /\ rt'[t].pc = "idle"
           /\ out' = "stop_ok"
           /\ \/ rt[t].row.state.status = Starting
              \/ rt[t].init /\ rt[t].row.state.status # Running
           /\ \A u \in Threads \ {t} : rt[u].pc = "idle")
             => /\ impls'[rt[t].i].state.status = Stopped
                /\ Has(db', rt[t].id) => db'[rt[t].id].state.status = Stopped
                /\ \A p \in Pids : procs'[p] # rt[t].id
      ]_vars

\* C18: once create has returned a handle for a box ID and until the box is
\* removed, a get(id) that goes past the cache lookup does not happen to
\* end without a handle, nor with a BoxImpl newly built from the store: the
\* box is found in the cache.
C18_GetAfterCreate ==
    [][\A t \in Threads :
          (/\ rt[t].pc \in {"get_db", "get_goc"}
           /\ rt[t].key \in created
           /\ rt'[t].pc = "idle")
             => /\ out' = "get_ok"
                /\ impls' = impls
      ]_vars

\* C19: the list list_info returns has every box that was created and not
\* removed exactly once (so a box is listed right after create, and a box
\* both in the cache and in the store is listed once), and no box twice.
C19_ListInfoEachOnce ==
    out = "list_ok"
       => /\ \A id \in created : infos[id] = 1
          /\ \A id \in BoxIds : Has(db, id) => infos[id] = 1
          /\ \A id \in BoxIds : infos[id] <= 1

C21_ForceRemoveLeavesNothing ==
    [][\A t \in Threads :
          (/\ rt[t].pc \in {"rm_check", "rm_delete"}
           /\ rt[t].force
           /\ rt'[t].pc = "idle"
           /\ out' = "remove_ok")
             => LET id == rt[t].id
                IN  /\ \A p \in Pids : procs'[p] # id
                    /\ ~Has(db', id)
                    /\ cacheId'[id] = NoImplRef
                    /\ \A n \in Names :
                          cacheName'[n] # NoImplRef
                             => impls'[cacheName'[n]].id # id
                    /\ pidfile'[id] = NoPid
                    /\ exists(db', cacheId', cacheName', id) = "false"
                    /\ list_info_merge({x \in BoxIds : Has(db', x)},
                                       cacheId')[id] = 0
      ]_vars

\* C22: while the runtime is up, the lock ID of a box that has rows is
\* allocated in the runtime's lock manager; and when remove returns Ok the
\* lock ID the box had is not allocated any more and its lock file is gone,
\* so that an allocation of the ID can succeed again.
C22_LockFreedAtRemove ==
    /\ [](rtUp => \A id \in BoxIds :
                     (Has(db, id) /\ db[id].state.lock_id # NoLock)
                        => /\ db[id].state.lock_id \in fAllocated["p1"]
                           /\ lockFiles[db[id].state.lock_id] # 0)
    /\ [][\A t \in Threads :
             (/\ rt[t].pc = "rm_delete"
              /\ rt'[t].pc = "idle"
              /\ out' = "remove_ok"
              /\ rt[t].row.state.lock_id # NoLock)
                => LET l == rt[t].row.state.lock_id
                   IN  /\ l \notin fAllocated'["p1"]
                       /\ create_new_ok(lockFiles', l)
         ]_vars

\* remove has returned Ok for a box that had a lock, and the lock ID is free.
C22_WitnessLockFreed ==
    /\ out = "remove_ok"
    /\ ~Has(db, PreBox)
    /\ PreBox \in used
    /\ PreLock \notin fAllocated["p1"]
    /\ lockFiles[PreLock] = 0

\* C23: at most one runtime holds a home directory at a time.  The runtime
\* holds the home lock from new() until it is dropped; while a runtime
\* holds it, new() on the same home fails, in any process, and changes
\* nothing; while none holds it, new() succeeds.
C23_OneRuntimePerHome ==
    /\ [](Cardinality(runtime_lock) <= 1)
    /\ [](rtUp <=> "p1" \in runtime_lock)
    /\ [][/\ runtime_lock # {} => runtime_lock' \subseteq runtime_lock
          /\ out' = "new_err_locked"
                => /\ runtime_lock # {}
                   /\ UNCHANGED <<runtime_lock, rtUp, db, lmvars, bootStored>>
      ]_vars

\* new() has just failed in the modelled process because a runtime of
\* another process holds the home.
C23_WitnessRefused ==
    /\ out = "new_err_locked"
    /\ ~rtUp
    /\ runtime_lock = {"p2"}

\* C24: when new() detects a reboot (the stored boot ID is another one than
\* the current), the reset leaves no active box in the store, and so does
\* new(); every box that was Starting or Running is Stopped without pid,
\* every other box has the status it had, and the IDs the reset returns are
\* those of the boxes it changed.
C24_RebootResetsActive ==
    [][(/\ ~rtUp
        /\ rtUp'
        /\ bootStored # NoBoot
        /\ bootStored # bootCur)
          => LET d1 == reset_active_boxes_after_reboot(db)
                 was == {id \in BoxIds :
                            /\ Has(db, id)
                            /\ db[id].state.status \in {Starting, Running}}
             IN  /\ list_active(d1) = {}
                 /\ list_active(db') = {}
                 /\ \A id \in BoxIds :
                       /\ Has(db', id) <=> Has(db, id)
                       /\ id \in was
                             => /\ d1[id].state.status = Stopped
                                /\ d1[id].state.pid = NoPid
                                /\ db'[id].state.status = Stopped
                                /\ db'[id].state.pid = NoPid
                       /\ (Has(db, id) /\ id \notin was)
                             => /\ d1[id].state.status = db[id].state.status
                                /\ db'[id].state.status = db[id].state.status
                 /\ reset_ids(db) = {id \in BoxIds : d1[id] # db[id]}
                 /\ reset_ids(db) = was
      ]_vars

\* new() has just handled a reboot that found a Running box with a pid.
C24_WitnessRebootReset ==
    /\ rtUp
    /\ bootStored = 2
    /\ out = "none"
    /\ \A t \in Threads : rt[t].pc = "idle"
    /\ impls = [i \in Impls |-> NoImpl]
    /\ Has(db, PreBox)
    /\ db[PreBox].state.status = Stopped
    /\ db[PreBox].state.pid = NoPid
    /\ db[PreBox].state.lock_id = PreLock
    /\ pidfile[PreBox] # NoPid

\* C25: check_and_update_boot(), as new() calls it, returns true exactly
\* when no boot ID is stored or the stored one differs from the current
\* one; the current boot ID is stored afterwards, so that a second call
\* without a reboot in between returns false.
C25_BootCheck ==
    [][(~rtUp /\ rtUp')
          => LET r == check_and_update_boot(bootStored, bootCur)
             IN  /\ r.is_reboot <=> (bootStored = NoBoot \/ bootStored # bootCur)
                 /\ bootStored' = bootCur
                 /\ ~check_and_update_boot(bootStored', bootCur').is_reboot
      ]_vars

\* C26: when the initialization of a box fails, at any stage, nothing the
\* stages made remains: no shim the pipeline spawned is alive, the box
\* directory is deleted, and the store has no record the pipeline made (the
\* row of the box, if it had one before, has the status and pid it had when
\* the pipeline started) nor the lock manager a lock it allocated.
C26_FailedInitLeavesNothing ==
    [][\A t \in Threads :
          (/\ rt[t].pc \in {"build", "finish"}
           /\ rt'[t].pc = "idle"
           /\ out' # "init_ok")
             => LET id == rt[t].id
                    before == rt[t].row.state
                IN  /\ before.status # Running
                          => \A p \in Pids : procs'[p] # id
                    /\ pidfile'[id] = NoPid
                    /\ Has(db', id)
                          => /\ db'[id].state.status = before.status
                             /\ db'[id].state.pid = before.pid
                    /\ fAllocated'["p1"] \subseteq fAllocated["p1"]
      ]_vars

\* C27: while the runtime is up, every box whose status is Starting or
\* Running, in its BoxImpl or in its row, has a lock ID, and that ID is
\* allocated in the runtime's lock manager.
C27_ActiveBoxHasLock ==
    rtUp =>
       /\ \A i \in Impls :
             (impls[i] # NoImpl /\ impls[i].state.status \in {Starting, Running})
                => /\ impls[i].state.lock_id # NoLock
                   /\ impls[i].state.lock_id \in fAllocated["p1"]
       /\ \A id \in BoxIds :
             (Has(db, id) /\ db[id].state.status \in {Starting, Running})
                => /\ db[id].state.lock_id # NoLock
                   /\ db[id].state.lock_id \in fAllocated["p1"]

C29_OneShimPerBox ==
    \A id \in BoxIds : Cardinality({p \in DOMAIN procs : procs[p] = id}) <= 1

\* C30: once remove(id) has returned Ok the box never exists again.  With
\* one call at a time: a box that does not exist (exists(id) is false)
\* comes to exist only as a box that create has returned and remove has not
\* removed; in particular no stop, start or exec on a handle obtained
\* before the removal puts its row back.
C30_RemovedStaysRemoved ==
    [][\A id \in BoxIds :
          (/\ seq
           /\ exists(db, cacheId, cacheName, id) = "false"
           /\ exists(db', cacheId', cacheName', id) = "true")
             => id \in created'
      ]_vars

\* C31: when new() has recovered the boxes, every row whose status is
\* Running has a pid, and that pid is a live process that is the shim of
\* the box; every row whose pid was dead or the pid of another process,
\* and every active row without pid, is Stopped.
C31_RecoveredRunningIsAlive ==
    [][(~rtUp /\ rtUp')
          => \A id \in BoxIds :
                Has(db, id) =>
                   /\ Has(db', id)
                   /\ db'[id].state.status = Running
                         => /\ db'[id].state.pid # NoPid
                            /\ procs'[db'[id].state.pid] = id
                   /\ (db[id].state.pid # NoPid
                          /\ procs[db[id].state.pid] # id)
                         => db'[id].state.status = Stopped
                   /\ (db[id].state.pid = NoPid
                          /\ is_active(db[id].state.status))
                         => db'[id].state.status = Stopped
      ]_vars

\* The runtime has started on a row that was Running with the pid of a
\* process that is not the box's shim, and the row is Stopped without pid.
C31_WitnessPidOfAnother ==
    /\ rtUp
    /\ procs[1] = ProcOther
    /\ Has(db, PreBox)
    /\ db[PreBox].state.status = Stopped
    /\ db[PreBox].state.pid = NoPid
    /\ \A i \in Impls : impls[i] = NoImpl

\* C32: when new() has recovered the boxes, the lock IDs its lock manager
\* tracks are exactly the lock IDs of the rows, each with its lock file and
\* no other lock file left, and no reclaim of a row's lock has failed.
C32_LocksReclaimed ==
    [][(~rtUp /\ rtUp')
          => LET referenced == {db'[id].state.lock_id :
                                   id \in {x \in BoxIds :
                                              /\ Has(db', x)
                                              /\ db'[x].state.lock_id # NoLock}}
             IN  /\ fAllocated'["p1"] = referenced
                 /\ {l \in LockIds : lockFiles'[l] # 0} = referenced
                 /\ recover_locks(db, lockFiles).errors = {}
      ]_vars

\* The runtime is up on a store with two boxes that have a lock each, and
\* tracks both locks.
C32_WitnessTwoLocks ==
    /\ rtUp
    /\ Cardinality({id \in BoxIds : Has(db, id)
                       /\ db[id].state.lock_id # NoLock}) = 2
    /\ fAllocated["p1"] = LockIds

C34_PidFileReadable ==
    [][\A t \in Threads :
          (/\ rt[t].pc = "finish"
           /\ rt'[t].pc # "finish"
           /\ out' # "err_build")
             => /\ pidfile[rt[t].id] # NoPid
                /\ pidfile[rt[t].id] = rt[t].hpid
      ]_vars

\* C36: the cleanup guard unwinds exactly on failure.  A run that succeeds
\* ends with the guard disarmed, nothing unwound and boxes_failed as it
\* was.  A run that fails ends with each resource registered with the
\* guard unwound once, in the reverse of the order of registration (the
\* controller before the layout), and boxes_failed greater by one.
C36_UnwindExactlyOnFailure ==
    [][(pl.pc \notin {"done", "failed"} /\ pl'.pc \in {"done", "failed"})
          => IF pl'.res = "ok"
             THEN /\ ~pl'.armed
                  /\ pl'.unwound = << >>
                  /\ pl'.boxes_failed = pl.boxes_failed
             ELSE /\ pl'.boxes_failed = pl.boxes_failed + 1
                  /\ Len(pl'.unwound) = Cardinality(
                        {x \in {"controller", "layout"} : pl[x]})
                  /\ \A x \in {"controller", "layout"} :
                        pl[x] <=> \E k \in 1 .. Len(pl'.unwound) :
                                     pl'.unwound[k] = x
                  /\ (pl.controller /\ pl.layout)
                        => pl'.unwound = <<"controller", "layout">>
      ]_vars

\* A run has failed after the spawn: the controller was stopped and then
\* the box directory removed.
C36_WitnessFailedAfterSpawn ==
    /\ pl.pc = "failed"
    /\ pl.st["spawn"] = "ok"
    /\ pl.unwound = <<"controller", "layout">>
    /\ pl.boxes_failed = 1

\* C35: a failure during startup recovery (reclaiming a lock, persisting a
\* corrected state) does not make new() fail: a call of new() that finds
\* the home free starts the runtime, and every box is recovered (no row is
\* left active without a live shim of its own).
C35_RecoveryFailuresTolerated ==
    [][(/\ ~rtUp
        /\ runtime_lock = {}
        /\ bootStored' = bootCur
        /\ (rtUp' \/ out' \in {"new_err_recover", "new_err_locked"}))
          => /\ rtUp'
             /\ \A id \in BoxIds :
                   (Has(db', id) /\ is_active(db'[id].state.status))
                      => /\ db'[id].state.pid # NoPid
                         /\ procs'[db'[id].state.pid] = id
      ]_vars

\* C37: with detach=false, once the parent process is dead the shim
\* eventually terminates (the watchdog notices, sends SIGTERM and, after
\* the grace period, SIGKILL).
C37_OrphanShimTerminates ==
    (/\ ~wd.detach
     /\ wd.shim \in {"boot", "run", "term"}
     /\ wd.parent # "alive") ~> (wd.shim = "exited")

\* C38: with detach=true no watchdog is started, and the death of the
\* parent process does not terminate the shim.
C38_DetachedShimIndependent ==
    [][wd.detach
          => /\ wd'.detach => wd'.w = "none"
             /\ (wd.parent = "alive" /\ wd'.parent # "alive")
                   => wd'.shim = wd.shim ]_vars

\* C39: concurrent runtime operations never deadlock: whenever callers are
\* inside operations, one of them can go on (is granted the lock it asks
\* for, releases one, or returns).
C39_NoDeadlock ==
    (\E t \in DOMAIN lo : lo[t].op # "none")
       => \E u \in DOMAIN lo :
             /\ lo[u].op # "none"
             /\ ENABLED LoStep(u, lo[u].op, lo[u].b)

\* C39 witness: a caller in start holds the lock of its box and waits for
\* another lock, which a second caller holds.
C39_WitnessWaitsHoldingBoxLock ==
    \E t \in DOMAIN lo :
       /\ lo[t].op = "start"
       /\ lo[t].pc >= 3
       /\ ~ENABLED LoStep(t, "start", lo[t].b)

\* C40: the LockGuard of init_live_state holds the box's lock until the
\* function returns and releases it on every exit path: when a caller
\* leaves the pipeline, with success or with an error of any step, the lock
\* it held is no longer locked.
C40_LockGuardReleased ==
    [][\A t \in Threads :
          (/\ rt[t].pc \in {"build", "finish"}
           /\ rt'[t].pc \notin {"build", "finish"})
             => /\ LockObj(rt[t].lk) \in locked
                /\ LockObj(rt[t].lk) \notin locked' ]_vars

\* C40 witness: an initialization has just failed and no lock is held.
C40_WitnessFailedInitUnlocked ==
    /\ out \in {"err_build", "err_attach", "err_pid_file", "err_not_found"}
    /\ locked = {}
    /\ \A t \in Threads : rt[t].pc = "idle"

====
